---- MODULE Spec2Model ----
(***************************************************************************)
(* Model of the Go package modemmanager (mdlayher/modemmanager): the       *)
(* valueParser decode session, the D-Bus error classifiers, the Client and *)
(* Modem operations and the iteration over modems.                         *)
(*                                                                         *)
(* Go values are records of one shape, so that values of different Go      *)
(* types can be compared: kind is the dynamic type, s/n/b carry a string,  *)
(* a number or a bool, and l the elements of a slice, map or tuple, which  *)
(* are Go values again (a byte, a character, a key/value pair).            *)
(* A property map (map[string]dbus.Variant) is the sequence of its         *)
(* key/value pairs in the order one `range` statement visits them; Go      *)
(* leaves that order unspecified, so every order is an input.              *)
(***************************************************************************)
EXTENDS Integers, Sequences, FiniteSets, TLC

VARIABLES
    vp,        \* the valueParser session: [v |-> wire value, err |-> error]
    acc,       \* the accessor called last on vp: [name, bits]
    ret,       \* what that call returned
    ncalls,    \* accessor calls made on vp so far
    threads,   \* the decodes running side by side, one record a thread
    op,        \* the Client/Modem operation performed last
    arg,       \* its input: index, rate, error name handed to a classifier
    reply,     \* what the transport answered to its (last) call
    res,       \* what it returned: [val, err]
    panicked,  \* TRUE once an operation aborted the process
    sent,      \* the transport calls issued by the operation, in order
    mdm,       \* the Modem the caller holds (GoNil before a fetch succeeded)
    modems,    \* ForEachModem: what the manager answers at each index
    i,         \* ForEachModem: the loop counter
    pc,        \* ForEachModem: "idle", "fetch", "fn" or "done"
    cur,       \* ForEachModem: the modem handed to fn
    fetched,   \* ForEachModem: the indices fetched, in order
    invoked,   \* ForEachModem: the Index of each modem fn was invoked with
    lastFetch, \* ForEachModem: what the last c.Modem call returned
    fnRet,     \* ForEachModem: what the last call of fn returned
    feRet      \* ForEachModem: the error returned

vpVars == <<vp, acc, ret, ncalls, threads>>
clVars == <<op, arg, reply, res, panicked, sent, mdm>>
feVars == <<modems, i, pc, cur, fetched, invoked, lastFetch, fnRet, feRet>>
vars == <<vp, acc, ret, ncalls, threads, op, arg, reply, res, panicked, sent, mdm,
          modems, i, pc, cur, fetched, invoked, lastFetch, fnRet, feRet>>

----------------------------------------------------------------------------
(* Bounds *)

MaxCalls == 3     \* accessor calls on one session
MaxPorts == 2     \* tuples in a wire ports list
MaxIndex == 4     \* modem indices the manager may populate: 0..MaxIndex-1
MaxParCalls == 2  \* accessor calls a thread makes on its session
MaxKeys  == 2     \* keys in a property map handed to Client.Modem

----------------------------------------------------------------------------
(* Go values *)

GoVal(k, s, n, b, l) == [kind |-> k, s |-> s, n |-> n, b |-> b, l |-> l]

GoNil == GoVal("nil", "", 0, FALSE, <<>>)

VString(s)      == GoVal("string", s, 0, FALSE, <<>>)
VUint32(n)      == GoVal("uint32", "", n, FALSE, <<>>)
VInt32(n)       == GoVal("int32", "", n, FALSE, <<>>)
VInt(n)         == GoVal("int", "", n, FALSE, <<>>)
VUint64(n)      == GoVal("uint64", "", n, FALSE, <<>>)
VFloat64(n)     == GoVal("float64", "", n, FALSE, <<>>)
VBool(b)        == GoVal("bool", "", 0, b, <<>>)
VObjectPaths(l) == GoVal("[]dbus.ObjectPath", "", 0, FALSE, l)
VPorts(l)       == GoVal("[][]interface{}", "", 0, FALSE, l)
VProperties(l)  == GoVal("map[string]dbus.Variant", "", 0, FALSE, l)
VTuple(l)       == GoVal("[]interface{}", "", 0, FALSE, l)
VPortList(l)    == GoVal("[]Port", "", 0, FALSE, l)

(* a slice of bytes, from the sequence bs of numbers *)
Byte(n)     == GoVal("byte", "", n, FALSE, <<>>)
VIP(bs)     == GoVal("net.IP", "", 0, FALSE, [j \in 1..Len(bs) |-> Byte(bs[j])])
VIPMask(bs) == GoVal("net.IPMask", "", 0, FALSE, [j \in 1..Len(bs) |-> Byte(bs[j])])

(* one key of a property map with its value *)
Pair(k, v) == GoVal("pair", k, 0, FALSE, <<v>>)
Key(pr)    == pr.s
Val(pr)    == pr.l[1]

(* errors: text is the message, piece by piece; derr is the Name of the    *)
(* dbus.Error errors.As finds in the chain ("" when there is none); is is   *)
(* the set of sentinel errors errors.Is finds in the chain.                *)
GoErr(text, derr, is) == [text |-> text, derr |-> derr, is |-> is]
NoErr == GoErr(<<>>, "", {})
errorsNew(msg) == GoErr(<<msg>>, "", {})

----------------------------------------------------------------------------
(* net.ParseIP and net.CIDRMask, as the accessors use them *)

V4InV6(a, b, c, d) == <<0, 0, 0, 0, 0, 0, 0, 0, 0, 0, 255, 255, a, b, c, d>>

ParseIP(s) ==
    CASE s = "192.0.2.10"   -> VIP(V4InV6(192, 0, 2, 10))
      [] s = "192.0.2.0"    -> VIP(V4InV6(192, 0, 2, 0))
      [] s = "192.0.2.1"    -> VIP(V4InV6(192, 0, 2, 1))
      [] s = "2001:db8::10" -> VIP(<<32, 1, 13, 184, 0, 0, 0, 0, 0, 0, 0, 0, 0, 0, 0, 16>>)
      [] s = "2001:db8::"   -> VIP(<<32, 1, 13, 184, 0, 0, 0, 0, 0, 0, 0, 0, 0, 0, 0, 0>>)
      [] s = "2001:db8::1"  -> VIP(<<32, 1, 13, 184, 0, 0, 0, 0, 0, 0, 0, 0, 0, 0, 0, 1>>)
      [] OTHER              -> GoNil

CIDRMask(ones, bits) ==
    IF bits # 32 /\ bits # 128 THEN GoNil
    ELSE IF ones < 0 \/ ones > bits THEN GoNil
    ELSE VIPMask([j \in 1..(bits \div 8) |->
                    IF ones - 8 * (j - 1) >= 8 THEN 255
                    ELSE IF ones - 8 * (j - 1) <= 0 THEN 0
                    ELSE 256 - 2^(8 - (ones - 8 * (j - 1)))])

----------------------------------------------------------------------------
(* valueParser: one session over one wire value *)

newValueParser(v) == [v |-> v, err |-> NoErr]

(* a session that never reports its error *)
Err_AlwaysNil(p) == NoErr

Err(p) == p.err

(* an accessor yields the session after the call and the value returned *)
Out(p, r) == [vp |-> p, ret |-> r]
Fail(p, msg, zero) == Out([p EXCEPT !.err = errorsNew(msg)], zero)

valueParser_Bool_Unguarded(p) ==
    IF p.v.kind # "bool"
    THEN Fail(p, "value is not of type bool", VBool(FALSE))
    ELSE Out(p, VBool(p.v.b))

valueParser_Bool(p) ==
    IF p.err # NoErr THEN Out(p, VBool(FALSE))
    ELSE IF p.v.kind # "bool"
    THEN Fail(p, "value is not of type bool", VBool(FALSE))
    ELSE Out(p, VBool(p.v.b))

valueParser_Float64(p) ==
    IF p.err # NoErr THEN Out(p, VFloat64(0))
    ELSE IF p.v.kind # "float64"
    THEN Fail(p, "value is not of type float64", VFloat64(0))
    ELSE Out(p, VFloat64(p.v.n))

valueParser_Int_Uint32Only(p) ==
    IF p.err # NoErr THEN Out(p, VInt(0))
    ELSE IF p.v.kind = "uint32" THEN Out(p, VInt(p.v.n))
    ELSE Fail(p, "value is not a valid integer", VInt(0))

(* an accessor that takes only the values of the named constants *)
valueParser_Int_NamedOnly(p) ==
    IF p.err # NoErr THEN Out(p, VInt(0))
    ELSE IF p.v.kind \in {"uint32", "int32"} /\ p.v.n \in -1..11 THEN Out(p, VInt(p.v.n))
    ELSE Fail(p, "value is not a valid integer", VInt(0))

valueParser_Int(p) ==
    IF p.err # NoErr THEN Out(p, VInt(0))
    ELSE IF p.v.kind = "uint32" THEN Out(p, VInt(p.v.n))
    ELSE IF p.v.kind = "int32" THEN Out(p, VInt(p.v.n))
    ELSE Fail(p, "value is not a valid integer", VInt(0))

valueParser_IP(p) ==
    IF p.err # NoErr THEN Out(p, GoNil)
    ELSE IF p.v.kind # "string"
    THEN Fail(p, "value for IP is not of type string", GoNil)
    ELSE IF ParseIP(p.v.s) = GoNil
    THEN Fail(p, "invalid IP address", GoNil)
    ELSE Out(p, ParseIP(p.v.s))

(* a Mask that records an error for a prefix longer than the family *)
valueParser_Mask_Checked(p, bits) ==
    IF p.err # NoErr THEN Out(p, GoNil)
    ELSE IF p.v.kind # "uint32"
    THEN Fail(p, "value for IP mask is not of type uint32", GoNil)
    ELSE IF p.v.n > bits
    THEN Fail(p, "invalid prefix length", GoNil)
    ELSE Out(p, CIDRMask(p.v.n, bits))

valueParser_Mask(p, bits) ==
    IF p.err # NoErr THEN Out(p, GoNil)
    ELSE IF p.v.kind # "uint32"
    THEN Fail(p, "value for IP mask is not of type uint32", GoNil)
    ELSE Out(p, CIDRMask(p.v.n, bits))

valueParser_String(p) ==
    IF p.err # NoErr THEN Out(p, VString(""))
    ELSE IF p.v.kind # "string"
    THEN Fail(p, "value is not of type string", VString(""))
    ELSE Out(p, VString(p.v.s))

valueParser_Uint64(p) ==
    IF p.err # NoErr THEN Out(p, VUint64(0))
    ELSE IF p.v.kind # "uint64"
    THEN Fail(p, "value is not of type uint64", VUint64(0))
    ELSE Out(p, VUint64(p.v.n))

valueParser_ObjectPaths(p) ==
    IF p.err # NoErr THEN Out(p, GoNil)
    ELSE IF p.v.kind # "[]dbus.ObjectPath"
    THEN Fail(p, "value is not an D-Bus object paths slice", GoNil)
    ELSE Out(p, p.v)

(* Port{Name: name, Type: PortType(typ)} *)
Port(name, typ) == GoVal("Port", name, typ, FALSE, <<>>)

(* the loop of Ports over the tuples ss from position j on, ps being the   *)
(* ports appended so far; a mutant keeps the ports decoded before the      *)
(* malformed tuple                                                         *)
RECURSIVE PortsLoopPartial(_, _, _, _)
PortsLoopPartial(p, ss, j, ps) ==
    IF j > Len(ss) THEN Out(p, VPortList(ps))
    ELSE IF Len(ss[j].l) # 2 THEN Fail(p, "invalid ports list slice", VPortList(ps))
    ELSE IF ss[j].l[1].kind # "string" THEN Fail(p, "invalid port name string", VPortList(ps))
    ELSE IF ss[j].l[2].kind # "uint32" THEN Fail(p, "invalid port type uint32", VPortList(ps))
    ELSE PortsLoopPartial(p, ss, j + 1, Append(ps, Port(ss[j].l[1].s, ss[j].l[2].n)))

RECURSIVE PortsLoop(_, _, _, _)
PortsLoop(p, ss, j, ps) ==
    IF j > Len(ss) THEN Out(p, VPortList(ps))
    ELSE IF Len(ss[j].l) # 2 THEN Fail(p, "invalid ports list slice", GoNil)
    ELSE IF ss[j].l[1].kind # "string" THEN Fail(p, "invalid port name string", GoNil)
    ELSE IF ss[j].l[2].kind # "uint32" THEN Fail(p, "invalid port type uint32", GoNil)
    ELSE PortsLoop(p, ss, j + 1, Append(ps, Port(ss[j].l[1].s, ss[j].l[2].n)))

valueParser_Ports(p) ==
    IF p.err # NoErr THEN Out(p, GoNil)
    ELSE IF p.v.kind # "[][]interface{}"
    THEN Fail(p, "value is not a ports list", GoNil)
    ELSE PortsLoop(p, p.v.l, 1, <<>>)

valueParser_Properties(p) ==
    IF p.err # NoErr THEN Out(p, GoNil)
    ELSE IF p.v.kind # "map[string]dbus.Variant"
    THEN Fail(p, "value is not a D-Bus properties map", GoNil)
    ELSE Out(p, p.v)

----------------------------------------------------------------------------
(* The wire values a session is opened on *)

SeqsUpTo(S, n) == UNION { [1..m -> S] : m \in 0..n }

WireValues ==
    { VString("X"), VString("foo"), VString("192.0.2.10"), VString("2001:db8::10"),
      VUint32(0), VUint32(7), VUint32(24), VUint32(33), VUint32(129),
      VInt32(-1), VInt(1), VUint64(7), VFloat64(-117),
      VBool(TRUE), VBool(FALSE) }
    \cup { VPorts(l) : l \in SeqsUpTo(
    { VTuple(<<VString("cdc-wdm0"), VUint32(7)>>), VTuple(<<VString("ttyUSB0"), VUint32(4)>>),
      VTuple(<<VString("foo")>>), VTuple(<<VBool(TRUE), VInt(1)>>),
      VTuple(<<VString("foo"), VBool(TRUE)>>),
      VTuple(<<VString("foo"), VUint32(1), VUint32(2)>>) }, MaxPorts) }
    \cup { VObjectPaths(<<>>),
           VObjectPaths(<<GoVal("dbus.ObjectPath", "/org/freedesktop/ModemManager1/Bearer",
                                0, FALSE, <<VString("0")>>)>>) }
    \cup { VProperties(<<>>), VProperties(<<Pair("rsrp", VFloat64(-117))>>) }

Accessors ==
    { [name |-> n, bits |-> 0] :
        n \in {"Bool", "Float64", "Int", "IP", "String", "Uint64",
               "ObjectPaths", "Ports", "Properties"} }
    \cup { [name |-> "Mask", bits |-> b] : b \in {32, 128} }

NoAcc == [name |-> "", bits |-> 0]

(* one accessor call on the session *)
Call(a, p) ==
    CASE a.name = "Bool"        -> valueParser_Bool(p)
      [] a.name = "Float64"     -> valueParser_Float64(p)
      [] a.name = "Int"         -> valueParser_Int(p)
      [] a.name = "IP"          -> valueParser_IP(p)
      [] a.name = "Mask"        -> valueParser_Mask(p, a.bits)
      [] a.name = "String"      -> valueParser_String(p)
      [] a.name = "Uint64"      -> valueParser_Uint64(p)
      [] a.name = "ObjectPaths" -> valueParser_ObjectPaths(p)
      [] a.name = "Ports"       -> valueParser_Ports(p)
      [] a.name = "Properties"  -> valueParser_Properties(p)

----------------------------------------------------------------------------
(* Names, errors and the two classifiers *)

unknownMethodError  == "org.freedesktop.DBus.Error.UnknownMethod"
serviceUnknownError == "org.freedesktop.DBus.Error.ServiceUnknown"
unauthorizedError   == "org.freedesktop.ModemManager1.Error.Core.Unauthorized"
noReplyError        == "org.freedesktop.DBus.Error.NoReply"

ErrNotExist   == "os.ErrNotExist"
ErrPermission == "os.ErrPermission"

errorsIs(err, target) == target \in err.is

(* dbus.Error{Name: name}, as the transport returns it *)
dbusError(name) == GoErr(<<name>>, name, {})

(* fmt.Errorf with %v arguments only: the text is kept, the chain is not *)
Errorf_v(prefix, err) == GoErr(prefix \o err.text, "", {})

(* fmt.Errorf("...: %w", err) *)
Errorf_w(prefix, err) == GoErr(prefix \o err.text, err.derr, err.is)

toNotExist_AnyName(err, name) ==
    IF err.derr = "" THEN err
    ELSE GoErr(<<"not found">> \o err.text \o <<"file does not exist">>, "", {ErrNotExist})

toNotExist(err, name) ==
    IF err.derr = "" \/ err.derr # name THEN err
    ELSE GoErr(<<"not found">> \o err.text \o <<"file does not exist">>, "", {ErrNotExist})

toPermission_Never(err) == err

toPermission(err) ==
    IF err.derr = "" \/ err.derr # unauthorizedError THEN err
    ELSE GoErr(<<"permission denied">> \o err.text \o <<"permission denied">>, "", {ErrPermission})

(* makeCall, makeGet, makeGetAll: how the real transport wraps a failure   *)
makeCall(err)   == Errorf_w(<<"failed to call">>, err)
makeGet(err)    == Errorf_w(<<"failed to get property">>, makeCall(err))
makeGetAll(err) == Errorf_w(<<"failed to get all properties">>, makeCall(err))

ErrNames == {unknownMethodError, serviceUnknownError, unauthorizedError, noReplyError}

(* what a call of c.call, c.get or c.getAll can fail with: a named D-Bus   *)
(* error or another failure (a cancelled context), returned bare by a      *)
(* swapped-in function or wrapped by the real one                          *)
BareErrs == { dbusError(n) : n \in ErrNames } \cup { errorsNew("context deadline exceeded") }
CallErrs   == BareErrs \cup { makeCall(e) : e \in BareErrs }
GetErrs    == BareErrs \cup { makeGet(e) : e \in BareErrs }
GetAllErrs == BareErrs \cup { makeGetAll(e) : e \in BareErrs }

----------------------------------------------------------------------------
(* Object paths: dir is the path up to the last element, base the last     *)
(* element, character by character                                         *)

baseObject == "/org/freedesktop/ModemManager1"

Digits == <<"0", "1", "2", "3", "4", "5", "6", "7", "8", "9">>

IsDigit(c) == \E d \in 0..9 : Digits[d + 1] = c

RECURSIVE ItoaNat(_)
ItoaNat(n) == IF n < 10 THEN <<Digits[n + 1]>> ELSE Append(ItoaNat(n \div 10), Digits[(n % 10) + 1])

(* strconv.Itoa *)
Itoa(n) == IF n < 0 THEN <<"-">> \o ItoaNat(-n) ELSE ItoaNat(n)

RECURSIVE AtoiNat(_, _)
AtoiNat(cs, a) == IF cs = <<>> THEN a ELSE AtoiNat(Tail(cs), 10 * a + (CHOOSE d \in 0..9 : Digits[d + 1] = Head(cs)))

(* a conversion that gives 0 and no error for what is not a number *)
Atoi_ZeroDefault(cs) ==
    [n |-> IF cs # <<>> /\ \A j \in 1..Len(cs) : IsDigit(cs[j]) THEN AtoiNat(cs, 0) ELSE 0,
     err |-> NoErr]

(* strconv.Atoi: [n, err] *)
Atoi(cs) ==
    LET signed == cs # <<>> /\ Head(cs) \in {"+", "-"}
        ds     == IF signed THEN Tail(cs) ELSE cs
    IN IF ds = <<>> \/ \E j \in 1..Len(ds) : ~IsDigit(ds[j])
       THEN [n |-> 0, err |-> errorsNew("strconv.Atoi: invalid syntax")]
       ELSE [n |-> IF signed /\ Head(cs) = "-" THEN -AtoiNat(ds, 0) ELSE AtoiNat(ds, 0),
             err |-> NoErr]

ObjectPath(dir, base) ==
    GoVal("dbus.ObjectPath", dir, 0, FALSE, [j \in 1..Len(base) |-> VString(base[j])])

(* path.Base(string(p)) *)
path_Base(p) == [j \in 1..Len(p.l) |-> p.l[j].s]

(* dbus.ObjectPath.IsValid on the last element: not empty, [A-Za-z0-9_] *)
IsValid(p) ==
    /\ path_Base(p) # <<>>
    /\ \A j \in 1..Len(path_Base(p)) :
          IsDigit(path_Base(p)[j]) \/ path_Base(p)[j] \in {"a", "b", "x", "_"}

(* objectPath(kind, base): the path and whether the validity check panics *)
objectPath(kind, base) ==
    LET p == ObjectPath(baseObject \o "/" \o kind, base)
    IN [p |-> p, panic |-> ~IsValid(p)]

----------------------------------------------------------------------------
(* Modem: Client.Modem and Modem.parse *)

ModemStringKeys ==
    { "CarrierConfiguration", "CarrierConfigurationRevision", "Device",
      "DeviceIdentifier", "EquipmentIdentifier", "HardwareRevision",
      "Manufacturer", "Model", "Plugin", "PrimaryPort", "Revision" }

(* a Modem made without its index *)
NewModem_IndexZero(index) ==
    [ Index |-> 0,
      CarrierConfiguration |-> "", CarrierConfigurationRevision |-> "",
      Device |-> "", DeviceIdentifier |-> "", EquipmentIdentifier |-> "",
      HardwareRevision |-> "", Manufacturer |-> "", Model |-> "", Plugin |-> "",
      Ports |-> GoNil, PowerState |-> 0, PrimaryPort |-> "", Revision |-> "",
      State |-> 0, bearers |-> GoNil ]

(* &Modem{Index: index, c: c} *)
NewModem(index) ==
    [ Index |-> index,
      CarrierConfiguration |-> "", CarrierConfigurationRevision |-> "",
      Device |-> "", DeviceIdentifier |-> "", EquipmentIdentifier |-> "",
      HardwareRevision |-> "", Manufacturer |-> "", Model |-> "", Plugin |-> "",
      Ports |-> GoNil, PowerState |-> 0, PrimaryPort |-> "", Revision |-> "",
      State |-> 0, bearers |-> GoNil ]

(* the body of the switch of Modem.parse for one key: the session after    *)
(* its accessor call and the Modem after the assignment                    *)
ModemCase(m, k, p) ==
    CASE k = "Bearers" ->
            LET o == valueParser_ObjectPaths(p) IN [vp |-> o.vp, m |-> [m EXCEPT !.bearers = o.ret]]
      [] k \in ModemStringKeys ->
            LET o == valueParser_String(p) IN [vp |-> o.vp, m |-> [m EXCEPT ![k] = o.ret.s]]
      [] k = "Ports" ->
            LET o == valueParser_Ports(p) IN [vp |-> o.vp, m |-> [m EXCEPT !.Ports = o.ret]]
      [] k = "PowerState" ->
            LET o == valueParser_Int(p) IN [vp |-> o.vp, m |-> [m EXCEPT !.PowerState = o.ret.n]]
      [] k = "State" ->
            LET o == valueParser_Int(p) IN [vp |-> o.vp, m |-> [m EXCEPT !.State = o.ret.n]]
      [] OTHER -> [vp |-> p, m |-> m]

(* Modem.parse over the pairs ps from position j on: [m, err] *)
RECURSIVE Modem_parse(_, _, _)
Modem_parse(m, ps, j) ==
    IF j > Len(ps) THEN [m |-> m, err |-> NoErr]
    ELSE LET c == ModemCase(m, Key(ps[j]), newValueParser(Val(ps[j])))
         IN IF Err(c.vp) # NoErr
            THEN [m |-> c.m, err |-> Errorf_v(<<"error parsing", Key(ps[j])>>, Err(c.vp))]
            ELSE Modem_parse(c.m, ps, j + 1)

(* a transport answer to GetAll: the properties or an error *)
Reply(ps, err) == [ps |-> ps, err |-> err]

(* a result: val is GoNil when the Go function returns a nil pointer *)
Result(val, err) == [val |-> val, err |-> err]

Request(method, path, iface) == [method |-> method, path |-> path, iface |-> iface]

ModemPath(index) == objectPath("Modem", Itoa(index))

(* Client.Modem once objectPath has returned: [val, err] *)
Client_Modem(index, rep) ==
    IF rep.err # NoErr THEN Result(GoNil, toNotExist(rep.err, unknownMethodError))
    ELSE LET r == Modem_parse(NewModem(index), rep.ps, 1)
         IN IF r.err # NoErr THEN Result(GoNil, r.err) ELSE Result(r.m, NoErr)

(* initClient: [val, err]; val is the Client's Version *)
initClient(rep) ==
    IF rep.err # NoErr THEN Result(GoNil, toNotExist(rep.err, serviceUnknownError))
    ELSE LET o == valueParser_String(newValueParser(rep.v))
         IN IF Err(o.vp) # NoErr
            THEN Result(GoNil, Errorf_v(<<"failed to parse ModemManager version">>, Err(o.vp)))
            ELSE Result(o.ret, NoErr)

(* the revision of initClient and Modem.parse in client.go, which asserts  *)
(* the dynamic type (v.Value().(string)): [val, err, panic]                *)
initClient_assert(rep) ==
    IF rep.err # NoErr
    THEN [val |-> GoNil, err |-> toNotExist(rep.err, serviceUnknownError), panic |-> FALSE]
    ELSE IF rep.v.kind # "string"
    THEN [val |-> GoNil, err |-> NoErr, panic |-> TRUE]
    ELSE [val |-> VString(rep.v.s), err |-> NoErr, panic |-> FALSE]

RECURSIVE Modem_parse_assert(_, _, _)
Modem_parse_assert(m, ps, j) ==
    IF j > Len(ps) THEN [m |-> m, panic |-> FALSE]
    ELSE IF Key(ps[j]) = "Device"
    THEN IF Val(ps[j]).kind # "string" THEN [m |-> m, panic |-> TRUE]
         ELSE Modem_parse_assert([m EXCEPT !.Device = Val(ps[j]).s], ps, j + 1)
    ELSE Modem_parse_assert(m, ps, j + 1)

Client_Modem_assert(index, rep) ==
    IF rep.err # NoErr
    THEN [val |-> GoNil, err |-> toNotExist(rep.err, unknownMethodError), panic |-> FALSE]
    ELSE LET r == Modem_parse_assert([Index |-> index, Device |-> ""], rep.ps, 1)
         IN IF r.panic THEN [val |-> GoNil, err |-> NoErr, panic |-> TRUE]
            ELSE [val |-> r.m, err |-> NoErr, panic |-> FALSE]

----------------------------------------------------------------------------
(* Signal: Modem.Signal, parseSignal, parseLTESignal *)

(* a time.Duration, in whole seconds and nanoseconds of the next second *)
Duration(sec, nsec) == [sec |-> sec, nsec |-> nsec]

(* time.Duration(v) * time.Second *)
Seconds(v) == Duration(v, 0)

(* The same conversion over the whole 32-bit range. A whole number beyond  *)
(* 2^31 is written as its sign and magnitude hi * 10^9 + lo, a duration as *)
(* that many seconds and nsec nanoseconds more.                            *)
Big(neg, hi, lo) == [neg |-> neg, hi |-> hi, lo |-> lo]

(* a build whose int is half as wide, as on 386 and arm *)
intSize_32 == 64 \div 2

(* the width of int in the build: 64 on amd64 and arm64 *)
intSize == 64

(* int(v) for a uint32 or int32 v: an int of 32 bits holds an unsigned v   *)
(* from 2^31 on as v - 2^32                                                *)
ToInt(x) ==
    IF intSize = 32 /\ ~x.neg /\ (x.hi > 2 \/ (x.hi = 2 /\ x.lo > 147483647))
    THEN IF x.lo <= 294967296 THEN Big(TRUE, 4 - x.hi, 294967296 - x.lo)
         ELSE Big(TRUE, 3 - x.hi, 1294967296 - x.lo)
    ELSE x

(* time.Duration(x) * time.Second: the int64 product. x * 10^9 is within   *)
(* the int64 range up to 9223372036 seconds; beyond, up to 2^64            *)
(* nanoseconds, the product is off by 2^64 = 18446744073 s + 709551616 ns  *)
(* and changes sign                                                        *)
time_Second(x) ==
    IF x.hi < 9 \/ (x.hi = 9 /\ x.lo <= 223372036)
    THEN [neg |-> x.neg, hi |-> x.hi, lo |-> x.lo, nsec |-> 0]
    ELSE IF x.lo <= 446744073
    THEN [neg |-> ~x.neg, hi |-> 18 - x.hi, lo |-> 446744073 - x.lo, nsec |-> 709551616]
    ELSE [neg |-> ~x.neg, hi |-> 17 - x.hi, lo |-> 1446744073 - x.lo, nsec |-> 709551616]

ZeroSignal == [Rate |-> Seconds(0), LTE |-> [RSRP |-> 0, RSRQ |-> 0, RSSI |-> 0, SNR |-> 0]]

(* a switch whose default case reads the value as a float64 too *)
LTECase_DefaultFloat64(l, k, p) ==
    CASE k = "rsrp" -> LET o == valueParser_Float64(p) IN [vp |-> o.vp, l |-> [l EXCEPT !.RSRP = o.ret.n]]
      [] k = "rsrq" -> LET o == valueParser_Float64(p) IN [vp |-> o.vp, l |-> [l EXCEPT !.RSRQ = o.ret.n]]
      [] k = "rssi" -> LET o == valueParser_Float64(p) IN [vp |-> o.vp, l |-> [l EXCEPT !.RSSI = o.ret.n]]
      [] k = "snr"  -> LET o == valueParser_Float64(p) IN [vp |-> o.vp, l |-> [l EXCEPT !.SNR = o.ret.n]]
      [] OTHER -> [vp |-> valueParser_Float64(p).vp, l |-> l]

LTECase(l, k, p) ==
    CASE k = "rsrp" -> LET o == valueParser_Float64(p) IN [vp |-> o.vp, l |-> [l EXCEPT !.RSRP = o.ret.n]]
      [] k = "rsrq" -> LET o == valueParser_Float64(p) IN [vp |-> o.vp, l |-> [l EXCEPT !.RSRQ = o.ret.n]]
      [] k = "rssi" -> LET o == valueParser_Float64(p) IN [vp |-> o.vp, l |-> [l EXCEPT !.RSSI = o.ret.n]]
      [] k = "snr"  -> LET o == valueParser_Float64(p) IN [vp |-> o.vp, l |-> [l EXCEPT !.SNR = o.ret.n]]
      [] OTHER -> [vp |-> p, l |-> l]

(* parseLTESignal over the pairs ps from position j on: [l, err] *)
RECURSIVE parseLTESignal(_, _, _)
parseLTESignal(l, ps, j) ==
    IF j > Len(ps) THEN [l |-> l, err |-> NoErr]
    ELSE LET c == LTECase(l, Key(ps[j]), newValueParser(Val(ps[j])))
         IN IF Err(c.vp) # NoErr
            THEN [l |-> c.l, err |-> Errorf_v(<<"error parsing LTE signal key", Key(ps[j])>>, Err(c.vp))]
            ELSE parseLTESignal(c.l, ps, j + 1)

(* parseSignal over the pairs ps from position j on: [val, err] *)
RECURSIVE parseSignal(_, _, _)
parseSignal(s, ps, j) ==
    IF j > Len(ps) THEN Result(s, NoErr)
    ELSE LET k == Key(ps[j])
             v == Val(ps[j])
         IN CASE v.kind = "uint32" ->
                    parseSignal(IF k = "Rate" THEN [s EXCEPT !.Rate = Seconds(v.n)] ELSE s, ps, j + 1)
              [] v.kind = "map[string]dbus.Variant" /\ k = "Lte" ->
                    LET r == parseLTESignal(s.LTE, v.l, 1)
                    IN IF r.err # NoErr THEN Result(GoNil, r.err)
                       ELSE parseSignal([s EXCEPT !.LTE = r.l], ps, j + 1)
              [] OTHER -> parseSignal(s, ps, j + 1)

(* Modem.Signal once objectPath has returned *)
Modem_Signal(rep) ==
    IF rep.err # NoErr THEN Result(GoNil, rep.err)
    ELSE parseSignal(ZeroSignal, rep.ps, 1)

----------------------------------------------------------------------------
(* Bearers: Modem.Bearers, Bearer.parse, parseIPConfig *)

RECURSIVE bytesCompare(_, _)
bytesCompare(a, b) ==
    IF a = <<>> THEN (IF b = <<>> THEN 0 ELSE -1)
    ELSE IF b = <<>> THEN 1
    ELSE IF Head(a).n < Head(b).n THEN -1
    ELSE IF Head(a).n > Head(b).n THEN 1
    ELSE bytesCompare(Tail(a), Tail(b))

(* x put into the sorted s behind every element it is not less than, less  *)
(* being bytes.Compare(x, y) == -1                                         *)
RECURSIVE InsertStable(_, _)
InsertStable(s, x) ==
    IF s = <<>> THEN <<x>>
    ELSE IF bytesCompare(x.l, s[Len(s)].l) = -1 THEN Append(InsertStable(SubSeq(s, 1, Len(s) - 1), x), s[Len(s)])
    ELSE Append(s, x)

(* a sort that leaves the slice as it is *)
SliceStable_Skipped(s) == s

(* sort.SliceStable(c.DNS, less) *)
RECURSIVE SliceStable(_)
SliceStable(s) ==
    IF s = <<>> THEN <<>> ELSE InsertStable(SliceStable(SubSeq(s, 1, Len(s) - 1)), s[Len(s)])

ZeroIPConfig == [Address |-> GoNil, DNS |-> <<>>, Gateway |-> GoNil, Method |-> 0, MTU |-> 0]

(* a new net.IPNet for every address and prefix key *)
AddressOf_Fresh(c) == [IP |-> GoNil, Mask |-> GoNil]

(* c.Address once the nil check of the address and prefix cases has run *)
AddressOf(c) == IF c.Address = GoNil THEN [IP |-> GoNil, Mask |-> GoNil] ELSE c.Address

IPConfigCase(c, k, p, bits) ==
    CASE k = "address" -> [c EXCEPT !.Address = [AddressOf(c) EXCEPT !.IP = valueParser_IP(p).ret]]
      [] k \in {"dns1", "dns2", "dns3"} -> [c EXCEPT !.DNS = Append(c.DNS, valueParser_IP(p).ret)]
      [] k = "gateway" -> [c EXCEPT !.Gateway = valueParser_IP(p).ret]
      [] k = "method"  -> [c EXCEPT !.Method = valueParser_Int(p).ret.n]
      [] k = "mtu"     -> [c EXCEPT !.MTU = valueParser_Int(p).ret.n]
      [] k = "prefix"  -> [c EXCEPT !.Address = [AddressOf(c) EXCEPT !.Mask = valueParser_Mask(p, bits).ret]]
      [] OTHER -> c

RECURSIVE IPConfigLoop(_, _, _, _)
IPConfigLoop(c, ps, j, bits) ==
    IF j > Len(ps) THEN c
    ELSE IPConfigLoop(IPConfigCase(c, Key(ps[j]), newValueParser(Val(ps[j])), bits), ps, j + 1, bits)

(* parseIPConfig: [val, err]; no session's Err is looked at, and the sort  *)
(* of c.DNS ends it                                                        *)
parseIPConfig(ps, ip6) ==
    LET SortDNS(c) == [c EXCEPT !.DNS = SliceStable(c.DNS)]
    IN Result(SortDNS(IPConfigLoop(ZeroIPConfig, ps, 1, IF ip6 THEN 128 ELSE 32)), NoErr)

(* a Bearer that starts with an allocated, empty IPv4 configuration *)
NewBearer_Defaults(idx) ==
    [ Index |-> idx, Connected |-> FALSE, Interface |-> "", IPTimeout |-> Seconds(0),
      IPv4Config |-> ZeroIPConfig, IPv6Config |-> GoNil, Suspended |-> FALSE ]

(* &Bearer{Index: idx, c: m.c} *)
NewBearer(idx) ==
    [ Index |-> idx, Connected |-> FALSE, Interface |-> "", IPTimeout |-> Seconds(0),
      IPv4Config |-> GoNil, IPv6Config |-> GoNil, Suspended |-> FALSE ]

(* the pairs of the map vp.Properties() returned; a nil map has none *)
PairsOf(r) == IF r = GoNil THEN <<>> ELSE r.l

(* the body of the switch of Bearer.parse for one key: [vp, b, err], err   *)
(* being the early return inside the Ip4Config and Ip6Config cases         *)
BearerCase(b, k, p) ==
    LET IP4(o, r) ==
            IF r.err # NoErr
            THEN [vp |-> o, b |-> b, err |-> Errorf_v(<<"error parsing IPv4 config">>, r.err)]
            ELSE [vp |-> o, b |-> [b EXCEPT !.IPv4Config = r.val], err |-> NoErr]
        IP6(o, r) ==
            IF r.err # NoErr
            THEN [vp |-> o, b |-> b, err |-> Errorf_v(<<"error parsing IPv6 config">>, r.err)]
            ELSE [vp |-> o, b |-> [b EXCEPT !.IPv6Config = r.val], err |-> NoErr]
    IN
    CASE k = "Connected" ->
            LET o == valueParser_Bool(p) IN [vp |-> o.vp, b |-> [b EXCEPT !.Connected = o.ret.b], err |-> NoErr]
      [] k = "Interface" ->
            LET o == valueParser_String(p) IN [vp |-> o.vp, b |-> [b EXCEPT !.Interface = o.ret.s], err |-> NoErr]
      [] k = "IpTimeout" ->
            LET o == valueParser_Int(p) IN [vp |-> o.vp, b |-> [b EXCEPT !.IPTimeout = Seconds(o.ret.n)], err |-> NoErr]
      [] k = "Ip4Config" ->
            IP4(valueParser_Properties(p).vp, parseIPConfig(PairsOf(valueParser_Properties(p).ret), FALSE))
      [] k = "Ip6Config" ->
            IP6(valueParser_Properties(p).vp, parseIPConfig(PairsOf(valueParser_Properties(p).ret), TRUE))
      [] k = "Suspended" ->
            LET o == valueParser_Bool(p) IN [vp |-> o.vp, b |-> [b EXCEPT !.Suspended = o.ret.b], err |-> NoErr]
      [] OTHER -> [vp |-> p, b |-> b, err |-> NoErr]

(* Bearer.parse over the pairs ps from position j on: [b, err] *)
(* Check is the rest of one iteration, c being what the switch left: the   *)
(* early return, then the check of vp.Err()                                *)
RECURSIVE Bearer_parse(_, _, _)

(* a parse that looks at vp.Err() for the last key visited only *)
Bearer_parse_LastOnly(b, ps, j) ==
    LET Check(c) ==
            IF c.err # NoErr THEN [b |-> c.b, err |-> c.err]
            ELSE IF j = Len(ps) /\ Err(c.vp) # NoErr
            THEN [b |-> c.b, err |-> Errorf_v(<<"error parsing", Key(ps[j])>>, Err(c.vp))]
            ELSE Bearer_parse(c.b, ps, j + 1)
    IN IF j > Len(ps) THEN [b |-> b, err |-> NoErr]
       ELSE Check(BearerCase(b, Key(ps[j]), newValueParser(Val(ps[j]))))

Bearer_parse(b, ps, j) ==
    LET Check(c) ==
            IF c.err # NoErr THEN [b |-> c.b, err |-> c.err]
            ELSE IF Err(c.vp) # NoErr
            THEN [b |-> c.b, err |-> Errorf_v(<<"error parsing", Key(ps[j])>>, Err(c.vp))]
            ELSE Bearer_parse(c.b, ps, j + 1)
    IN IF j > Len(ps) THEN [b |-> b, err |-> NoErr]
       ELSE Check(BearerCase(b, Key(ps[j]), newValueParser(Val(ps[j]))))

VBearers(l) == GoVal("[]*Bearer", "", 0, FALSE, l)

methodGet    == "org.freedesktop.DBus.Properties.Get"
methodGetAll == "org.freedesktop.DBus.Properties.GetAll"
service      == "org.freedesktop.ModemManager1"

(* interfacePath(ss...) with the elements ss already joined by "." *)
interfacePath(ss) == IF ss = "" THEN service ELSE service \o "." \o ss

(* the loop of Modem.Bearers over the stored paths ops from position j on, *)
(* reps[j] being the transport's answer for ops[j]: [val, err, sent]       *)
RECURSIVE BearersLoop(_, _, _, _, _)

(* a loop that hands back the bearers decoded so far with the error *)
BearersParsed_Partial(ops, reps, j, bs, out, r) ==
    IF r.err # NoErr THEN [val |-> VBearers(bs), err |-> r.err, sent |-> out]
    ELSE BearersLoop(ops, reps, j + 1, Append(bs, r.b), out)

(* one iteration once b.parse has returned r *)
BearersParsed(ops, reps, j, bs, out, r) ==
    IF r.err # NoErr THEN [val |-> GoNil, err |-> r.err, sent |-> out]
    ELSE BearersLoop(ops, reps, j + 1, Append(bs, r.b), out)

(* a loop that fetches every bearer before looking at any answer *)
BearersLoop_Eager(ops, reps, j, bs, out) ==
    LET All == [n \in 1..Len(ops) |-> Request(methodGetAll, ops[n], interfacePath("Bearer"))]
        Fetched(a) ==
            IF reps[j].err # NoErr THEN [val |-> GoNil, err |-> reps[j].err, sent |-> All]
            ELSE IF a.err # NoErr THEN [val |-> GoNil, err |-> a.err, sent |-> All]
            ELSE BearersParsed(ops, reps, j, bs, All, Bearer_parse(NewBearer(a.n), reps[j].ps, 1))
    IN IF j > Len(ops) THEN [val |-> VBearers(bs), err |-> NoErr, sent |-> All]
       ELSE Fetched(Atoi(path_Base(ops[j])))

(* Fetched is one iteration once getAll has answered reps[j], sent being   *)
(* the requests so far and a what strconv.Atoi returned                    *)
BearersLoop(ops, reps, j, bs, out) ==
    LET Fetched(sent2, a) ==
            IF reps[j].err # NoErr THEN [val |-> GoNil, err |-> reps[j].err, sent |-> sent2]
            ELSE IF a.err # NoErr THEN [val |-> GoNil, err |-> a.err, sent |-> sent2]
            ELSE BearersParsed(ops, reps, j, bs, sent2, Bearer_parse(NewBearer(a.n), reps[j].ps, 1))
    IN IF j > Len(ops) THEN [val |-> VBearers(bs), err |-> NoErr, sent |-> out]
       ELSE Fetched(Append(out, Request(methodGetAll, ops[j], interfacePath("Bearer"))),
                    Atoi(path_Base(ops[j])))

----------------------------------------------------------------------------
(* Modem.GetNetworkTime and Modem.SignalSetup *)

(* a time.Time: the instant in seconds since the epoch, the nanoseconds    *)
(* of the second and the zone offset in seconds east of UTC                *)
Time(unix, nsec, off) == [unix |-> unix, nsec |-> nsec, off |-> off]

ZeroTime == [unix |-> 0, nsec |-> 0, off |-> 0, zero |-> TRUE]

(* time.Parse(time.RFC3339, str): [t, err]                                 *)
(* 1594830662 is 2020-07-15T16:31:02 taken as a UTC instant                *)
time_Parse(str) ==
    CASE str = "2020-07-15T16:31:02-04:00"
            -> [t |-> Time(1594830662 + 14400, 0, -14400), err |-> NoErr]
      [] str = "2020-07-15T16:31:02.5+02:00"
            -> [t |-> Time(1594830662 - 7200, 500000000, 7200), err |-> NoErr]
      [] str = "2020-07-15T16:31:02Z"
            -> [t |-> Time(1594830662, 0, 0), err |-> NoErr]
      [] OTHER -> [t |-> ZeroTime, err |-> errorsNew("parsing time: cannot parse")]

(* the fields of the instant itself, read in UTC *)
DateClock_Instant(t) == t.unix

(* t.Date() and t.Clock(): the calendar and clock fields in t's zone, as   *)
(* the seconds since the epoch they denote when read as UTC                *)
DateClock(t) == t.unix + t.off

(* time.Date(y, mon, d, hh, mm, ss, 0, time.UTC).In(loc) *)
time_Date_In(fields, off) == Time(fields, 0, off)

(* a reply to c.call with an output slot: the value stored or an error *)
CallReply(v, err) == [v |-> v, err |-> err]

Modem_GetNetworkTime(rep) ==
    IF rep.err # NoErr THEN Result(ZeroTime, toPermission(rep.err))
    ELSE LET o == valueParser_String(newValueParser(rep.v))
             t == time_Parse(o.ret.s)
         IN IF Err(o.vp) # NoErr THEN Result(ZeroTime, Err(o.vp))
            ELSE IF t.err # NoErr THEN Result(ZeroTime, t.err)
            ELSE Result(time_Date_In(DateClock(t.t), t.t.off), NoErr)

(* rate.Round(time.Second).Seconds(): halfway values round away from zero; *)
(* a negative rate has sec and nsec not above 0                            *)
RoundSeconds(rate) ==
    IF rate.nsec >= 500000000 THEN rate.sec + 1
    ELSE IF rate.nsec <= -500000000 THEN rate.sec - 1
    ELSE rate.sec

(* the argument lists the Setup call can carry: uint32(f) of a float64 f   *)
(* that a uint32 cannot hold is implementation-dependent in Go, so any     *)
(* uint32 may come out (0 on arm64, f + 2^32 on amd64); 0, 1 and 2^31-1    *)
(* stand for them                                                          *)
SetupArgs(rate) ==
    IF RoundSeconds(rate) >= 0 THEN { <<VUint32(RoundSeconds(rate))>> }
    ELSE { <<VUint32(n)>> : n \in {0, 1, 2147483647} }

Modem_SignalSetup(rate, err) ==
    IF err # NoErr THEN Result(GoNil, toPermission(err)) ELSE Result(GoNil, NoErr)

CallRequest(method, path, out, args) == [method |-> method, path |-> path, out |-> out, args |-> args]

----------------------------------------------------------------------------
(* The decode session: any accessor, any number of times, on one value *)

VpIdle == vp = newValueParser(GoNil) /\ acc = NoAcc /\ ret = GoNil /\ ncalls = 0 /\ threads = <<>>

ClIdle ==
    /\ op = "" /\ arg = GoNil /\ reply = GoNil /\ res = Result(GoNil, NoErr)
    /\ panicked = FALSE /\ sent = <<>> /\ mdm = GoNil

FeIdle ==
    /\ modems = <<>> /\ i = 0 /\ pc = "idle" /\ cur = GoNil /\ fetched = <<>>
    /\ invoked = <<>> /\ lastFetch = Result(GoNil, NoErr) /\ fnRet = NoErr /\ feRet = NoErr

InitVP ==
    /\ vp \in { newValueParser(v) : v \in WireValues }
    /\ acc = NoAcc /\ ret = GoNil /\ ncalls = 0 /\ threads = <<>>
    /\ ClIdle /\ FeIdle

Access(a) ==
    /\ ncalls < MaxCalls
    /\ vp' = Call(a, vp).vp
    /\ ret' = Call(a, vp).ret
    /\ acc' = a
    /\ ncalls' = ncalls + 1
    /\ UNCHANGED <<threads, clVars, feVars>>

NextVP == \E a \in Accessors : Access(a)

SpecVP == InitVP /\ [][NextVP]_vars

----------------------------------------------------------------------------
(* Decodes side by side: each thread owns one session, or one LTE decode   *)
(* with the session it makes for each key. An accessor call is two steps,  *)
(* entering the method and leaving it, and the steps of the threads        *)
(* interleave in any order.                                                *)

(* a session whose error slot is one package variable: the error a thread  *)
(* records shows in every session                                          *)
Session_finish_SharedErr(ts, t) ==
    [u \in DOMAIN ts |->
        IF u = t
        THEN [ts[t] EXCEPT !.p = Call(ts[t].calls[Len(ts[t].calls)], ts[t].p).vp,
                           !.out = Call(ts[t].calls[Len(ts[t].calls)], ts[t].p).ret,
                           !.busy = FALSE]
        ELSE [ts[u] EXCEPT !.p.err = Call(ts[t].calls[Len(ts[t].calls)], ts[t].p).vp.err]]

(* thread t leaves the accessor it is in: the method has read and written  *)
(* the v and err of its receiver, and nothing else                         *)
Session_finish(ts, t) ==
    [ts EXCEPT ![t].p = Call(ts[t].calls[Len(ts[t].calls)], ts[t].p).vp,
               ![t].out = Call(ts[t].calls[Len(ts[t].calls)], ts[t].p).ret,
               ![t].busy = FALSE]

InitPar ==
    LET Job(kind, v, ps) ==
            [kind |-> kind, p |-> newValueParser(v), calls |-> <<>>, busy |-> FALSE, out |-> GoNil,
             ps |-> ps, j |-> 1, l |-> ZeroSignal.LTE, err |-> NoErr]
        Jobs == { Job("session", v, <<>>) : v \in {VString("X"), VUint32(7), VBool(TRUE)} }
                \cup { Job("decode", GoNil, ps) :
                         ps \in { <<Pair("rsrp", VFloat64(-117)), Pair("snr", VFloat64(13))>>,
                                  <<Pair("rsrq", VUint32(1)), Pair("rssi", VFloat64(-85))>> } }
    IN /\ threads \in { <<a, b>> : a, b \in Jobs }
       /\ threads[1] # threads[2]
       /\ vp = newValueParser(GoNil) /\ acc = NoAcc /\ ret = GoNil /\ ncalls = 0
       /\ ClIdle /\ FeIdle

(* thread t enters an accessor of its session *)
Par_Begin(t) ==
    /\ threads[t].kind = "session" /\ ~threads[t].busy
    /\ Len(threads[t].calls) < MaxParCalls
    /\ \E a \in { x \in Accessors : x.name \in {"Bool", "Int", "String", "IP"} } :
          threads' = [threads EXCEPT ![t].calls = Append(@, a), ![t].busy = TRUE]
    /\ UNCHANGED <<vp, acc, ret, ncalls, clVars, feVars>>

(* thread t leaves it *)
Par_Finish(t) ==
    /\ threads[t].kind = "session" /\ threads[t].busy
    /\ threads' = Session_finish(threads, t)
    /\ UNCHANGED <<vp, acc, ret, ncalls, clVars, feVars>>

(* thread t runs one iteration of the loop of parseLTESignal *)
Par_DecodeKey(t) ==
    /\ threads[t].kind = "decode" /\ threads[t].err = NoErr
    /\ threads[t].j <= Len(threads[t].ps)
    /\ \E r \in { parseLTESignal(threads[t].l, <<threads[t].ps[threads[t].j]>>, 1) } :
          threads' = [threads EXCEPT ![t].l = r.l, ![t].err = r.err, ![t].j = @ + 1]
    /\ UNCHANGED <<vp, acc, ret, ncalls, clVars, feVars>>

NextPar == \E t \in 1..2 : Par_Begin(t) \/ Par_Finish(t) \/ Par_DecodeKey(t)

SpecPar == InitPar /\ [][NextPar]_vars

----------------------------------------------------------------------------
(* Properties of the decode session *)

(* the zero value of the type accessor a returns *)
ZeroOf(a) ==
    CASE a.name = "Bool"    -> VBool(FALSE)
      [] a.name = "Float64" -> VFloat64(0)
      [] a.name = "Int"     -> VInt(0)
      [] a.name = "String"  -> VString("")
      [] a.name = "Uint64"  -> VUint64(0)
      [] OTHER              -> GoNil

(* every element of the wire list v is a tuple (string, uint32) *)
WellFormedPorts(v) ==
    \A j \in 1..Len(v.l) :
        /\ Len(v.l[j].l) = 2
        /\ v.l[j].l[1].kind = "string"
        /\ v.l[j].l[2].kind = "uint32"

(* the wire value v has the type accessor a expects *)
Expected(a, v) ==
    CASE a.name = "Bool"        -> v.kind = "bool"
      [] a.name = "Float64"     -> v.kind = "float64"
      [] a.name = "Int"         -> v.kind \in {"uint32", "int32"}
      [] a.name = "IP"          -> v.kind = "string" /\ ParseIP(v.s) # GoNil
      [] a.name = "Mask"        -> v.kind = "uint32"
      [] a.name = "String"      -> v.kind = "string"
      [] a.name = "Uint64"      -> v.kind = "uint64"
      [] a.name = "ObjectPaths" -> v.kind = "[]dbus.ObjectPath"
      [] a.name = "Ports"       -> v.kind = "[][]interface{}" /\ WellFormedPorts(v)
      [] a.name = "Properties"  -> v.kind = "map[string]dbus.Variant"

(* the wire value v as a value of the type accessor a returns *)
ValueOf(a, v) ==
    CASE a.name = "Bool"    -> VBool(v.b)
      [] a.name = "Float64" -> VFloat64(v.n)
      [] a.name = "Int"     -> VInt(v.n)
      [] a.name = "IP"      -> ParseIP(v.s)
      [] a.name = "Mask"    -> CIDRMask(v.n, a.bits)
      [] a.name = "Ports"   -> VPortList([j \in 1..Len(v.l) |-> Port(v.l[j].l[1].s, v.l[j].l[2].n)])
      [] OTHER              -> v

(* C1: once an accessor has recorded an error on a session, every later    *)
(* accessor call on it returns the zero value of its type and leaves the   *)
(* recorded error as it is: never overwritten, never reset to nil.         *)
C1_StickyError ==
    [][ (ncalls' = ncalls + 1 /\ Err(vp) # NoErr)
            => (Err(vp') = Err(vp) /\ ret' = ZeroOf(acc')) ]_vars

(* C1 witness: Float64 failed on a string, and a later String call, which  *)
(* alone would have returned "X", returned "" and kept the first error.    *)
C1_Witness ==
    /\ ncalls = 3
    /\ vp.v = VString("X")
    /\ acc.name = "String"
    /\ ret = VString("")
    /\ Err(vp) = errorsNew("value is not of type float64")

(* C2: on a fresh session, an accessor called on a value that is not of    *)
(* its expected type returns the zero value and leaves Err() non-nil; on a *)
(* value of its expected type it returns that value and leaves Err() nil.  *)
C2_FreshAccessor ==
    ncalls = 1 =>
        IF Expected(acc, vp.v)
        THEN ret = ValueOf(acc, vp.v) /\ Err(vp) = NoErr
        ELSE ret = ZeroOf(acc) /\ Err(vp) # NoErr

(* C2 witness: Int on an int32 returned the number, with no error *)
C2_Witness ==
    /\ ncalls = 1 /\ acc.name = "Int" /\ vp.v = VInt32(-1)
    /\ ret = VInt(-1) /\ Err(vp) = NoErr

(* C4: Ports is all-or-nothing: a wire list of well-formed tuples decodes  *)
(* to the ports of the same length and order, carrying each tuple's name   *)
(* and type code; a list with a malformed tuple at any position decodes to *)
(* nil with an error recorded.                                             *)
C4_PortsAtomic ==
    (ncalls = 1 /\ acc.name = "Ports" /\ vp.v.kind = "[][]interface{}") =>
        IF WellFormedPorts(vp.v)
        THEN /\ Err(vp) = NoErr
             /\ ret.kind = "[]Port"
             /\ Len(ret.l) = Len(vp.v.l)
             /\ \A j \in 1..Len(vp.v.l) :
                    ret.l[j].s = vp.v.l[j].l[1].s /\ ret.l[j].n = vp.v.l[j].l[2].n
        ELSE ret = GoNil /\ Err(vp) # NoErr

(* C4 witness: a well-formed tuple followed by a one-element tuple gave    *)
(* nil and an error.                                                       *)
C4_Witness ==
    /\ ncalls = 1 /\ acc.name = "Ports"
    /\ vp.v = VPorts(<<VTuple(<<VString("cdc-wdm0"), VUint32(7)>>), VTuple(<<VString("foo")>>)>>)
    /\ ret = GoNil
    /\ Err(vp) = errorsNew("invalid ports list slice")

----------------------------------------------------------------------------
(* The Client and its Modems: what the transport answers is the input *)

BearerPath(base) == ObjectPath(baseObject \o "/Bearer", base)

Good2Ports == VPorts(<<VTuple(<<VString("cdc-wdm0"), VUint32(7)>>), VTuple(<<VString("ttyUSB0"), VUint32(4)>>)>>)

IP4Map ==
    VProperties(<<Pair("address", VString("192.0.2.10")), Pair("dns2", VString("192.0.2.1")),
                  Pair("dns1", VString("192.0.2.0")), Pair("prefix", VUint32(24))>>)

(* the values the manager may send under a key of a property map: some of  *)
(* the type the decoder expects, some not; Vendor and Foo are keys no      *)
(* decoder knows                                                           *)
PropVals(k) ==
    CASE k = "Device"     -> { VString("X"), VInt(1), VUint32(3) }
      [] k = "PowerState" -> { VUint32(3), VInt32(-1), VUint32(2147483647), VString("X") }
      [] k = "State"      -> { VInt32(11), VInt32(-2147483647), VUint32(99) }
      [] k = "Ports"      -> { Good2Ports, VPorts(<<VTuple(<<VString("foo")>>)>>), VInt(1),
                               VPorts(<<VTuple(<<VString("ttyUSB0"), VUint32(2147483647)>>)>>) }
      [] k = "Bearers"    -> { VObjectPaths(<<>>),
                               VObjectPaths(<<BearerPath(<<"0">>)>>),
                               VObjectPaths(<<BearerPath(<<"0">>), BearerPath(<<"1", "2">>)>>),
                               VObjectPaths(<<BearerPath(<<"0">>), BearerPath(<<"x">>)>>),
                               VString("X") }
      [] k = "Vendor"     -> { VString("X"), VInt(1) }
      [] k = "Foo"        -> { VString("X"), VInt(1), VProperties(<<>>) }
      [] k = "Connected"  -> { VBool(TRUE), VString("foo") }
      [] k = "Interface"  -> { VString("wwan0"), VUint32(1) }
      [] k = "IpTimeout"  -> { VUint32(20), VBool(TRUE) }
      [] k = "Ip4Config"  -> { IP4Map, VString("X"),
                               VProperties(<<Pair("address", VString("192.0.2.10")), Pair("prefix", VUint32(33))>>),
                               VProperties(<<Pair("address", VUint32(1))>>),
                               VProperties(<<Pair("gateway", VString("foo"))>>) }
      [] k = "Ip6Config"  -> { VProperties(<<Pair("address", VString("2001:db8::10")),
                                             Pair("prefix", VUint32(64))>>),
                               VProperties(<<Pair("mtu", VString("X"))>>),
                               VProperties(<<Pair("prefix", VUint32(129)),
                                             Pair("address", VString("2001:db8::10"))>>),
                               VInt(1) }
      [] k = "rsrp"       -> { VFloat64(-117), VString("foo") }
      [] k = "rsrq"       -> { VFloat64(-11), VUint32(1) }
      [] k = "rssi"       -> { VFloat64(-85) }
      [] k = "snr"        -> { VFloat64(13) }
      [] k = "address"    -> { VString("192.0.2.10"), VString("foo"), VUint32(1) }
      [] k = "dns1"       -> { VString("192.0.2.0"), VString("192.0.2.1"), VString("192.0.2.10"), VUint32(1) }
      [] k \in {"dns2", "dns3"} -> { VString("192.0.2.0"), VString("192.0.2.1"), VString("192.0.2.10") }
      [] k = "gateway"    -> { VString("192.0.2.1"), VBool(TRUE) }
      [] k = "method"     -> { VUint32(1), VUint32(2147483647), VInt32(-2147483647), VString("X") }
      [] k = "mtu"        -> { VUint32(1500), VString("X") }
      [] k = "prefix"     -> { VUint32(0), VUint32(24), VUint32(33), VUint32(129), VString("X") }

(* property maps: their pairs in visiting order, no key twice *)
MapsOver(pairs, n) ==
    { ps \in SeqsUpTo(pairs, n) : \A a, b \in 1..Len(ps) : a # b => Key(ps[a]) # Key(ps[b]) }

(* the property maps handed to decoder d: up to MaxKeys keys, and for     *)
(* parseIPConfig also any addresses under dns1, dns2 and dns3              *)
DecodeMaps(d) ==
    LET Over(K) == MapsOver(UNION { { Pair(k, v) : v \in PropVals(k) } : k \in K }, MaxKeys)
    IN CASE d = "Modem.parse"    -> Over({"Device", "PowerState", "State", "Ports", "Bearers", "Vendor"})
         [] d = "Bearer.parse"   -> Over({"Connected", "Interface", "IpTimeout", "Ip4Config", "Ip6Config", "Foo"})
         [] d = "parseLTESignal" -> Over({"rsrp", "rsrq", "rssi", "snr", "Foo"})
         [] d = "parseIPConfig"  ->
                Over({"address", "dns1", "gateway", "method", "mtu", "prefix", "Foo"})
                \cup MapsOver(UNION { { Pair(k, v) : v \in PropVals("dns2") } :
                                        k \in {"dns1", "dns2", "dns3"} }, 3)

(* what getAll answers to Client.Modem: the maps with Device, Bearers and  *)
(* a key Modem.parse does not read (Do_Decode runs Modem.parse on the     *)
(* maps with the other keys), or an error                                  *)
ModemReplies ==
    { Reply(ps, NoErr) :
        ps \in { q \in DecodeMaps("Modem.parse") :
                    \A j \in 1..Len(q) : Key(q[j]) \in {"Device", "Bearers", "Vendor"} } }
    \cup { Reply(<<>>, e) : e \in GetAllErrs }

VersionReplies ==
    { CallReply(v, NoErr) : v \in {VString("1.99.99"), VInt(1), VUint32(7), VBool(TRUE), Good2Ports} }
    \cup { CallReply(GoNil, e) : e \in GetErrs }

BearerReplies ==
    { Reply(ps, NoErr) :
        ps \in { <<>>,
                 <<Pair("Connected", VBool(TRUE)), Pair("IpTimeout", VUint32(20)), Pair("Ip4Config", IP4Map)>>,
                 <<Pair("Connected", VString("foo"))>> } }
    \cup { Reply(<<>>, e) : e \in GetAllErrs }

IndexInputs == {-1, 0, 1, 12}

(* the errors handed to the classifiers: the transport's, and those a     *)
(* decode produces                                                         *)
ClassifierInputs ==
    CallErrs \cup GetErrs \cup GetAllErrs \cup { errorsNew("value is not of type string") }

VersionRequest == [method |-> methodGet, path |-> baseObject, iface |-> interfacePath(""), prop |-> "Version"]

(* the keys each decoder's switch names, with the field its case assigns   *)
(* and the accessor it calls                                               *)
Recognized(d) ==
    CASE d = "Modem.parse" ->
            [k \in ModemStringKeys |-> [field |-> k, acc |-> "String"]]
            @@ [ Bearers    |-> [field |-> "bearers", acc |-> "ObjectPaths"],
                 Ports      |-> [field |-> "Ports", acc |-> "Ports"],
                 PowerState |-> [field |-> "PowerState", acc |-> "Int"],
                 State      |-> [field |-> "State", acc |-> "Int"] ]
      [] d = "Bearer.parse" ->
            [ Connected |-> [field |-> "Connected", acc |-> "Bool"],
              Interface |-> [field |-> "Interface", acc |-> "String"],
              IpTimeout |-> [field |-> "IPTimeout", acc |-> "Int"],
              Ip4Config |-> [field |-> "IPv4Config", acc |-> "Properties"],
              Ip6Config |-> [field |-> "IPv6Config", acc |-> "Properties"],
              Suspended |-> [field |-> "Suspended", acc |-> "Bool"] ]
      [] d = "parseLTESignal" ->
            [ rsrp |-> [field |-> "RSRP", acc |-> "Float64"],
              rsrq |-> [field |-> "RSRQ", acc |-> "Float64"],
              rssi |-> [field |-> "RSSI", acc |-> "Float64"],
              snr  |-> [field |-> "SNR", acc |-> "Float64"] ]
      [] d = "parseIPConfig" ->
            [ address |-> [field |-> "Address", acc |-> "IP"],
              dns1    |-> [field |-> "DNS", acc |-> "IP"],
              dns2    |-> [field |-> "DNS", acc |-> "IP"],
              dns3    |-> [field |-> "DNS", acc |-> "IP"],
              gateway |-> [field |-> "Gateway", acc |-> "IP"],
              method  |-> [field |-> "Method", acc |-> "Int"],
              mtu     |-> [field |-> "MTU", acc |-> "Int"],
              prefix  |-> [field |-> "Address", acc |-> "Mask"] ]

(* decoder d run on the pairs ps of a property map, on a new entity:       *)
(* [val, err], val being the entity as the decoder left it                 *)
Decode(d, ps, ip6) ==
    LET M(r) == Result(r.m, r.err)
        B(r) == Result(r.b, r.err)
        L(r) == Result(r.l, r.err)
    IN CASE d = "Modem.parse"    -> M(Modem_parse(NewModem(0), ps, 1))
         [] d = "Bearer.parse"   -> B(Bearer_parse(NewBearer(0), ps, 1))
         [] d = "parseLTESignal" -> L(parseLTESignal(ZeroSignal.LTE, ps, 1))
         [] d = "parseIPConfig"  -> parseIPConfig(ps, ip6)

InitCl == VpIdle /\ ClIdle /\ FeIdle

(* one decoder on one property map *)
Do_Decode ==
    /\ op = "" /\ ~panicked
    /\ \E d \in {"Modem.parse", "Bearer.parse", "parseLTESignal", "parseIPConfig"}, ip6 \in BOOLEAN :
        /\ d = "parseIPConfig" \/ ~ip6
        /\ \E ps \in DecodeMaps(d) :
            /\ op' = d
            /\ arg' = [ps |-> ps, ip6 |-> ip6]
            /\ reply' = GoNil
            /\ res' = Decode(d, ps, ip6)
    /\ UNCHANGED <<panicked, sent, mdm, vpVars, feVars>>

(* initClient, as Dial and the tests call it *)
Do_initClient ==
    /\ op = "" /\ ~panicked
    /\ \E rep \in VersionReplies :
        /\ op' = "initClient"
        /\ arg' = GoNil
        /\ reply' = rep
        /\ res' = initClient(rep)
        /\ sent' = <<VersionRequest>>
    /\ UNCHANGED <<panicked, mdm, vpVars, feVars>>

(* initClient in the revision of client.go *)
Do_initClient_assert ==
    /\ op = "" /\ ~panicked
    /\ \E rep \in VersionReplies :
        /\ op' = "initClient_assert"
        /\ arg' = GoNil
        /\ reply' = rep
        /\ res' = Result(initClient_assert(rep).val, initClient_assert(rep).err)
        /\ panicked' = initClient_assert(rep).panic
        /\ sent' = <<VersionRequest>>
    /\ UNCHANGED <<mdm, vpVars, feVars>>

(* a Client is there: made by a test, or returned by initClient *)
HaveClient == op = "" \/ (op = "initClient" /\ res.err = NoErr)

(* the caller holds the Modem that Client.Modem has just returned *)
HaveModem ==
    /\ mdm # GoNil
    /\ op \in {"Modem", "GetNetworkTime", "SignalSetup", "Signal", "Bearers"}

(* a method that empties the list of bearer paths it has walked *)
Modem_receiver_Drained(m) == [m EXCEPT !.bearers = VObjectPaths(<<>>)]

(* the Modem a method was called on, once the method has returned: the     *)
(* methods read m.Index, m.bearers and m.c and assign to no field of m     *)
Modem_receiver(m) == m

(* Client.Modem *)
Do_Modem ==
    /\ HaveClient /\ ~panicked /\ mdm = GoNil
    /\ \E idx \in IndexInputs, rep \in ModemReplies :
        /\ op' = "Modem"
        /\ arg' = VInt(idx)
        /\ IF ModemPath(idx).panic
           THEN /\ panicked' = TRUE
                /\ reply' = GoNil
                /\ res' = Result(GoNil, NoErr)
                /\ sent' = <<>>
                /\ mdm' = GoNil
           ELSE /\ panicked' = FALSE
                /\ reply' = rep
                /\ res' = Client_Modem(idx, rep)
                /\ sent' = <<Request(methodGetAll, ModemPath(idx).p, interfacePath("Modem"))>>
                /\ mdm' = Client_Modem(idx, rep).val
    /\ UNCHANGED <<vpVars, feVars>>

(* Client.Modem in the revision of client.go *)
Do_Modem_assert ==
    /\ HaveClient /\ ~panicked /\ mdm = GoNil
    /\ \E idx \in IndexInputs, rep \in ModemReplies :
        /\ op' = "Modem_assert"
        /\ arg' = VInt(idx)
        /\ IF ModemPath(idx).panic
           THEN /\ panicked' = TRUE
                /\ reply' = GoNil
                /\ res' = Result(GoNil, NoErr)
                /\ sent' = <<>>
           ELSE /\ panicked' = Client_Modem_assert(idx, rep).panic
                /\ reply' = rep
                /\ res' = Result(Client_Modem_assert(idx, rep).val, Client_Modem_assert(idx, rep).err)
                /\ sent' = <<Request(methodGetAll, ModemPath(idx).p, interfacePath("Modem"))>>
    /\ UNCHANGED <<mdm, vpVars, feVars>>

(* Modem.GetNetworkTime *)
Do_GetNetworkTime ==
    /\ HaveModem /\ ~panicked
    /\ \E rep \in
        { CallReply(v, NoErr) :
            v \in { VString("2020-07-15T16:31:02-04:00"), VString("2020-07-15T16:31:02.5+02:00"),
                    VString("2020-07-15T16:31:02Z"), VString("foo"), VUint32(7) } }
        \cup { CallReply(GoNil, e) : e \in CallErrs } :
        /\ op' = "GetNetworkTime"
        /\ arg' = GoNil
        /\ reply' = rep
        /\ res' = Modem_GetNetworkTime(rep)
        /\ sent' = <<CallRequest(interfacePath("Modem.Time.GetNetworkTime"), ModemPath(mdm.Index).p, "&v", <<>>)>>
    /\ mdm' = Modem_receiver(mdm)
    /\ UNCHANGED <<panicked, vpVars, feVars>>

(* Modem.SignalSetup *)
Do_SignalSetup ==
    /\ HaveModem /\ ~panicked
    /\ \E rate \in { Duration(0, 0), Duration(10, 0), Duration(1, 500000000), Duration(1, 499999999),
                       Duration(0, -400000000), Duration(-1, 0), Duration(-1, -500000000) },
          e \in {NoErr} \cup CallErrs :
        /\ op' = "SignalSetup"
        /\ arg' = rate
        /\ reply' = CallReply(GoNil, e)
        /\ res' = Modem_SignalSetup(rate, e)
        /\ \E args \in SetupArgs(rate) :
              sent' = <<CallRequest(interfacePath("Modem.Signal.Setup"), ModemPath(mdm.Index).p, "nil", args)>>
    /\ mdm' = Modem_receiver(mdm)
    /\ UNCHANGED <<panicked, vpVars, feVars>>

(* Modem.Signal *)
Do_Signal ==
    /\ HaveModem /\ ~panicked
    /\ \E rep \in
        { Reply(ps, NoErr) :
            ps \in { <<>>,
                     <<Pair("Rate", VUint32(10)), Pair("Lte", VProperties(<<Pair("rsrp", VFloat64(-117))>>))>>,
                     <<Pair("Lte", VProperties(<<Pair("rsrp", VString("foo"))>>))>>,
                     <<Pair("Rate", VString("foo"))>>,
                     <<Pair("Rate", VUint32(10)), Pair("Lte", VString("foo"))>> } }
        \cup { Reply(<<>>, e) : e \in GetAllErrs } :
        /\ op' = "Signal"
        /\ arg' = GoNil
        /\ reply' = rep
        /\ res' = Modem_Signal(rep)
        /\ sent' = <<Request(methodGetAll, ModemPath(mdm.Index).p, interfacePath("Modem.Signal"))>>
    /\ mdm' = Modem_receiver(mdm)
    /\ UNCHANGED <<panicked, vpVars, feVars>>

(* Modem.Bearers: reply keeps the answers the loop consumed *)
Do_Bearers ==
    /\ HaveModem /\ ~panicked
    /\ \E reps \in [1..Len(PairsOf(mdm.bearers)) -> BearerReplies] :
        \E r \in { BearersLoop(PairsOf(mdm.bearers), reps, 1, <<>>, <<>>) } :
           /\ op' = "Bearers"
           /\ arg' = GoNil
           /\ reply' = SubSeq(reps, 1, Len(r.sent))
           /\ res' = Result(r.val, r.err)
           /\ sent' = r.sent
    /\ mdm' = Modem_receiver(mdm)
    /\ UNCHANGED <<panicked, vpVars, feVars>>

(* the classifiers on their own *)
Do_toNotExist ==
    /\ op = "" /\ ~panicked
    /\ \E e \in ClassifierInputs, name \in ErrNames :
        /\ op' = "toNotExist"
        /\ arg' = GoErr(<<>>, name, {})
        /\ reply' = e
        /\ res' = Result(GoNil, toNotExist(e, name))
    /\ UNCHANGED <<panicked, sent, mdm, vpVars, feVars>>

Do_toPermission ==
    /\ op = "" /\ ~panicked
    /\ \E e \in ClassifierInputs :
        /\ op' = "toPermission"
        /\ arg' = GoNil
        /\ reply' = e
        /\ res' = Result(GoNil, toPermission(e))
    /\ UNCHANGED <<panicked, sent, mdm, vpVars, feVars>>

(* the seconds conversions of parseSignal (Rate, a uint32 converted as it  *)
(* is) and Bearer.parse (IpTimeout, through vp.Int()) at the ends of the   *)
(* ranges of the wire types                                                *)
Do_Seconds ==
    /\ op = "" /\ ~panicked
    /\ \E k \in {"Rate", "IpTimeout"}, kind \in {"uint32", "int32"},
          x \in { Big(FALSE, 0, 0), Big(FALSE, 0, 10), Big(FALSE, 2, 147483647),
                  Big(FALSE, 2, 147483648), Big(FALSE, 4, 294967295),
                  Big(TRUE, 0, 1), Big(TRUE, 2, 147483648) } :
        /\ k = "Rate" => kind = "uint32"
        /\ IF kind = "uint32" THEN ~x.neg
           ELSE x.hi < 2 \/ (x.hi = 2 /\ x.lo <= 147483647) \/ (x.neg /\ x = Big(TRUE, 2, 147483648))
        /\ op' = "Seconds"
        /\ arg' = [key |-> k, kind |-> kind, v |-> x]
        /\ reply' = GoNil
        /\ res' = Result(IF k = "Rate" THEN time_Second(x) ELSE time_Second(ToInt(x)), NoErr)
    /\ UNCHANGED <<panicked, sent, mdm, vpVars, feVars>>

NextCl ==
    \/ Do_Seconds
    \/ Do_initClient \/ Do_initClient_assert \/ Do_Modem \/ Do_Modem_assert
    \/ Do_GetNetworkTime \/ Do_SignalSetup \/ Do_Signal \/ Do_Bearers
    \/ Do_toNotExist \/ Do_toPermission \/ Do_Decode

SpecCl == InitCl /\ [][NextCl]_vars

----------------------------------------------------------------------------
(* Client.ForEachModem: one action per call it makes (c.Modem, then fn) *)

(* what getAll answers for a modem index: the properties of a modem that   *)
(* exists, the manager's answer for an index that has no object, or a      *)
(* failed call                                                             *)
Exists(ans) == ans.err = NoErr
Absent == Reply(<<>>, dbusError(unknownMethodError))

FetchAnswers ==
    { Reply(<<Pair("Device", VString("X"))>>, NoErr),
      Reply(<<Pair("Device", VInt(1))>>, NoErr),
      Absent,
      Reply(<<>>, makeGetAll(dbusError(unknownMethodError))),
      Reply(<<>>, dbusError(noReplyError)) }

(* the branch after c.Modem returned r: halt says the loop returns ret *)
AfterFetch(r) ==
    IF r.err # NoErr
    THEN IF errorsIs(r.err, ErrNotExist) THEN [halt |-> TRUE, ret |-> NoErr]
         ELSE [halt |-> TRUE, ret |-> r.err]
    ELSE [halt |-> FALSE, ret |-> NoErr]

(* a loop that takes os.ErrNotExist from fn for the end of the modems *)
AfterFn_NotExistIsNil(e) ==
    IF e # NoErr
    THEN [halt |-> TRUE, ret |-> IF errorsIs(e, ErrNotExist) THEN NoErr ELSE e]
    ELSE [halt |-> FALSE, ret |-> NoErr]

(* a loop that returns after the first call of fn *)
AfterFn_Once(e) == [halt |-> TRUE, ret |-> e]

(* the branch after fn returned e *)
AfterFn(e) == IF e # NoErr THEN [halt |-> TRUE, ret |-> e] ELSE [halt |-> FALSE, ret |-> NoErr]

InitFE ==
    /\ VpIdle /\ ClIdle
    /\ modems \in [0..(MaxIndex - 1) -> FetchAnswers]
    /\ i = 0 /\ pc = "fetch" /\ cur = GoNil
    /\ fetched = <<>> /\ invoked = <<>>
    /\ lastFetch = Result(GoNil, NoErr) /\ fnRet = NoErr /\ feRet = NoErr

(* m, err := c.Modem(ctx, i) and the branch on err; an index the table of  *)
(* the manager does not hold has no modem, and the loop is followed up to  *)
(* index MaxIndex                                                          *)
FE_Fetch ==
    /\ pc = "fetch" /\ i <= MaxIndex
    /\ \E r \in { Client_Modem(i, IF i \in DOMAIN modems THEN modems[i] ELSE Absent) } :
        /\ lastFetch' = r
        /\ fetched' = Append(fetched, i)
        /\ cur' = r.val
        /\ IF AfterFetch(r).halt
           THEN pc' = "done" /\ feRet' = AfterFetch(r).ret /\ i' = i
           ELSE pc' = "fn" /\ feRet' = feRet /\ i' = i
    /\ UNCHANGED <<modems, invoked, fnRet, vpVars, clVars>>

(* err := fn(ctx, m), the branch on err and i++ *)
FE_Fn ==
    /\ pc = "fn"
    /\ \E e \in {NoErr, errorsNew("some error"),
                GoErr(<<"file does not exist">>, "", {ErrNotExist}),
                GoErr(<<"fn", "permission denied">>, "", {ErrPermission})} :
        /\ fnRet' = e
        /\ invoked' = Append(invoked, cur.Index)
        /\ IF AfterFn(e).halt
           THEN pc' = "done" /\ feRet' = AfterFn(e).ret /\ i' = i
           ELSE pc' = "fetch" /\ feRet' = feRet /\ i' = i + 1
    /\ UNCHANGED <<modems, cur, fetched, lastFetch, vpVars, clVars>>

NextFE == FE_Fetch \/ FE_Fn

SpecFE == InitFE /\ [][NextFE]_vars

(* the loop under a scheduler that lets it run, on a manager of at most    *)
(* MaxIndex modems or on one that has a modem at every index the loop is   *)
(* followed to                                                             *)
InitFELive ==
    /\ VpIdle /\ ClIdle
    /\ modems \in [0..(MaxIndex - 1) -> FetchAnswers]
                  \cup { [k \in 0..MaxIndex |-> Reply(<<Pair("Device", VString("X"))>>, NoErr)] }
    /\ i = 0 /\ pc = "fetch" /\ cur = GoNil
    /\ fetched = <<>> /\ invoked = <<>>
    /\ lastFetch = Result(GoNil, NoErr) /\ fnRet = NoErr /\ feRet = NoErr

SpecFELive == InitFELive /\ [][NextFE]_vars /\ WF_vars(NextFE)

----------------------------------------------------------------------------
(* Properties of the Client and the Modem methods, under SpecCl *)

(* the property map ps holds, under a key decoder d reads, a value that is *)
(* not of the type read there                                              *)
Mistyped(d, ps) ==
    \E j \in 1..Len(ps) :
        /\ Key(ps[j]) \in DOMAIN Recognized(d)
        /\ ~Expected([name |-> Recognized(d)[Key(ps[j])].acc, bits |-> 0], Val(ps[j]))

(* C3: no wire value makes a decoding operation abort the process:         *)
(* initClient given a Version that is not a string, and Client.Modem given *)
(* a property map with a value of the wrong type under Device or another   *)
(* key it reads, return a non-nil error and do not panic. Stated for both  *)
(* revisions of initClient and Modem.parse in the sources.                 *)
C3_NoPanicOnWireValues ==
    /\ (op \in {"initClient", "initClient_assert"} /\ reply.err = NoErr /\ reply.v.kind # "string")
          => (~panicked /\ res.err # NoErr)
    /\ (op = "Modem" /\ sent # <<>> /\ reply.err = NoErr /\ Mistyped("Modem.parse", reply.ps))
          => (~panicked /\ res.err # NoErr)
    /\ (op = "Modem_assert" /\ sent # <<>> /\ reply.err = NoErr
          /\ \E j \in 1..Len(reply.ps) :
                Key(reply.ps[j]) = "Device" /\ Val(reply.ps[j]).kind # "string")
          => (~panicked /\ res.err # NoErr)

(* the type assertion of client.go has panicked on a Version of another type *)
C3_Witness ==
    /\ op = "initClient_assert" /\ reply.err = NoErr /\ reply.v.kind # "string"
    /\ panicked

(* C5: toNotExist(err, name) returns an error that is os.ErrNotExist       *)
(* exactly when err carries a dbus.Error named name; toPermission(err)     *)
(* returns an error that is os.ErrPermission exactly when the name is the  *)
(* unauthorized one; in every other case the input is returned unchanged   *)
(* and is neither. initClient, which passes the ServiceUnknown name,       *)
(* returns an UnknownMethod error as a non-nil error that is not           *)
(* os.ErrNotExist.                                                         *)
C5_Classifiers ==
    /\ op = "toNotExist" =>
          /\ errorsIs(res.err, ErrNotExist) <=> (reply.derr # "" /\ reply.derr = arg.derr)
          /\ ~errorsIs(res.err, ErrPermission)
          /\ ~(reply.derr # "" /\ reply.derr = arg.derr) => res.err = reply
    /\ op = "toPermission" =>
          /\ errorsIs(res.err, ErrPermission) <=> reply.derr = unauthorizedError
          /\ ~errorsIs(res.err, ErrNotExist)
          /\ reply.derr # unauthorizedError => res.err = reply
    /\ (op = "initClient" /\ reply.err.derr = unknownMethodError) =>
          /\ res.err # NoErr
          /\ ~errorsIs(res.err, ErrNotExist)
          /\ res.err = reply.err

(* toPermission has classified an unauthorized error that makeCall wrapped *)
C5_Witness ==
    /\ op = "toPermission"
    /\ reply = makeCall(dbusError(unauthorizedError))
    /\ errorsIs(res.err, ErrPermission) /\ res.err # reply

(* C6 as stated: whichever of UnknownMethod and ServiceUnknown the         *)
(* transport returns to initClient or to Client.Modem, the error returned  *)
(* is os.ErrNotExist.                                                      *)
C6_BothNamesNotFound ==
    (op \in {"initClient", "Modem"} /\ sent # <<>>
       /\ reply.err.derr \in {unknownMethodError, serviceUnknownError})
       => errorsIs(res.err, ErrNotExist)

(* C6, amended: each caller classifies one name. initClient returns        *)
(* os.ErrNotExist exactly for ServiceUnknown and Client.Modem exactly for  *)
(* UnknownMethod; the other name comes back unchanged and is not           *)
(* os.ErrNotExist.                                                         *)
C6_OneNamePerCaller ==
    /\ (op = "initClient" /\ reply.err # NoErr) =>
          /\ errorsIs(res.err, ErrNotExist) <=> reply.err.derr = serviceUnknownError
          /\ reply.err.derr # serviceUnknownError => res.err = reply.err
    /\ (op = "Modem" /\ sent # <<>> /\ reply.err # NoErr) =>
          /\ errorsIs(res.err, ErrNotExist) <=> reply.err.derr = unknownMethodError
          /\ reply.err.derr # unknownMethodError => res.err = reply.err

(* Client.Modem has returned a ServiceUnknown error as it came *)
C6_Witness ==
    /\ op = "Modem" /\ sent # <<>>
    /\ reply.err.derr = serviceUnknownError
    /\ res.err = reply.err /\ ~errorsIs(res.err, ErrNotExist)

(* C7: every method called on a Modem (GetNetworkTime, SignalSetup,        *)
(* Signal, Bearers) returns an error that is os.ErrPermission whenever     *)
(* the transport call it makes fails with the unauthorized error.          *)
C7_PermissionDenied ==
    /\ (op \in {"GetNetworkTime", "SignalSetup", "Signal"} /\ reply.err.derr = unauthorizedError)
          => errorsIs(res.err, ErrPermission)
    /\ (op = "Bearers" /\ reply # <<>> /\ reply[Len(reply)].err.derr = unauthorizedError)
          => errorsIs(res.err, ErrPermission)

(* Modem.Signal has returned the unauthorized error as it came *)
C7_Witness ==
    /\ op = "Signal"
    /\ reply.err = dbusError(unauthorizedError)
    /\ res.err = reply.err /\ ~errorsIs(res.err, ErrPermission)

----------------------------------------------------------------------------
(* Properties of ForEachModem, under SpecFE *)

(* the indices 0, 1, .., n-1 in order *)
UpTo(n) == [k \in 1..n |-> k - 1]

(* C8: ForEachModem fetches the indices 0, 1, 2, .. in ascending order and *)
(* invokes fn once for each modem fetched, in that order, with Index the   *)
(* fetched index; when the fetch at index k is os.ErrNotExist the loop     *)
(* stops with fn invoked for 0..k-1, nothing above k fetched, and nil      *)
(* returned.                                                               *)
C8_AscendingUntilNotFound ==
    /\ fetched = UpTo(Len(fetched))
    /\ invoked = UpTo(Len(invoked))
    /\ pc = "fetch" => (Len(invoked) = Len(fetched) /\ i = Len(fetched))
    /\ pc = "fn" => (fetched = UpTo(i + 1) /\ invoked = UpTo(i) /\ cur.Index = i)
    /\ (pc = "done" /\ lastFetch.err = NoErr) => Len(invoked) = Len(fetched)
    /\ errorsIs(lastFetch.err, ErrNotExist) =>
          /\ pc = "done" /\ feRet = NoErr
          /\ fetched = UpTo(i + 1) /\ invoked = UpTo(i)

(* the loop has ended at index 2, which is not found, after two modems *)
C8_Witness ==
    /\ pc = "done" /\ errorsIs(lastFetch.err, ErrNotExist)
    /\ fetched = <<0, 1, 2>> /\ invoked = <<0, 1>> /\ feRet = NoErr

(* C9: an error returned by fn halts ForEachModem at once and is returned  *)
(* as it is, whatever its category, os.ErrNotExist included; nothing is    *)
(* fetched and fn is not invoked after it. A fetch error that is not       *)
(* os.ErrNotExist halts the loop too and is returned.                      *)
C9_HaltOnError ==
    /\ fnRet # NoErr =>
          /\ pc = "done" /\ feRet = fnRet
          /\ fetched = UpTo(i + 1) /\ invoked = UpTo(i + 1)
    /\ (lastFetch.err # NoErr /\ ~errorsIs(lastFetch.err, ErrNotExist)) =>
          /\ pc = "done" /\ feRet = lastFetch.err
          /\ fetched = UpTo(i + 1) /\ invoked = UpTo(i)

(* fn has returned os.ErrNotExist for the second modem and the loop has    *)
(* returned it                                                             *)
C9_Witness ==
    /\ pc = "done" /\ invoked = <<0, 1>> /\ fetched = <<0, 1>>
    /\ errorsIs(fnRet, ErrNotExist) /\ feRet = fnRet

(* C10: whenever ForEachModem returns nil, fn has been invoked for every   *)
(* index at which the manager has a modem, whatever the set of indices.    *)
C10_EveryModemVisited ==
    (pc = "done" /\ feRet = NoErr) =>
        \A k \in DOMAIN modems : Exists(modems[k]) => \E j \in 1..Len(invoked) : invoked[j] = k

(* modems at 1 and 3 only: nil is returned and fn was never invoked *)
C10_Witness ==
    /\ pc = "done" /\ feRet = NoErr /\ invoked = <<>>
    /\ { k \in DOMAIN modems : Exists(modems[k]) } = {1, 3}

----------------------------------------------------------------------------
(* Properties of the decoders, under SpecCl *)

(* C11: an entity fetch never returns a partial entity with a failure:     *)
(* Client.Modem and Modem.Signal return either an entity and a nil error   *)
(* or a nil entity and an error; Modem.Bearers returns either one Bearer   *)
(* per object path and a nil error or a nil list and an error, also when   *)
(* earlier bearers of the list were decoded.                               *)
C11_EntityOrError ==
    /\ (op \in {"Modem", "Signal"} /\ sent # <<>>) =>
          \/ (res.val # GoNil /\ res.err = NoErr)
          \/ (res.val = GoNil /\ res.err # NoErr)
    /\ op = "Bearers" =>
          \/ /\ res.err = NoErr /\ res.val # GoNil
             /\ Len(res.val.l) = Len(PairsOf(mdm.bearers))
          \/ (res.val = GoNil /\ res.err # NoErr)

(* the second of two bearers fails to decode after the first was decoded *)
C11_Witness ==
    /\ op = "Bearers" /\ Len(reply) = 2
    /\ reply[1].err = NoErr /\ reply[1].ps # <<>>
    /\ reply[2].err = NoErr /\ res.err # NoErr /\ res.val = GoNil

(* C12: in the Modem, Bearer, LTE signal and IPConfig decoders a key the   *)
(* switch does not name is ignored whatever its value: decoding a map      *)
(* gives what decoding it without those keys gives, and after a decode     *)
(* without error every field that is not the field of a key present is as  *)
(* on a new entity.                                                        *)
C12_UnknownKeysIgnored ==
    op \in {"Modem.parse", "Bearer.parse", "parseLTESignal", "parseIPConfig"} =>
        LET Known(pr) == Key(pr) \in DOMAIN Recognized(op)
            known     == SelectSeq(arg.ps, Known)
            touched   == { Recognized(op)[Key(known[j])].field : j \in 1..Len(known) }
        IN /\ res = Decode(op, known, arg.ip6)
           /\ res.err = NoErr =>
                 \A f \in DOMAIN res.val :
                     f \notin touched => res.val[f] = Decode(op, <<>>, arg.ip6).val[f]

(* Bearer.parse has decoded Connected after a key Foo holding a map *)
C12_Witness ==
    /\ op = "Bearer.parse"
    /\ arg.ps = <<Pair("Foo", VProperties(<<>>)), Pair("Connected", VBool(TRUE))>>
    /\ res.err = NoErr /\ res.val.Connected /\ res.val.Interface = ""

(* C13: in Modem.parse, Bearer.parse (its own keys, an Ip4Config or        *)
(* Ip6Config that is not a property map included) and parseLTESignal, a    *)
(* recognized key whose value is not of the type its accessor reads makes  *)
(* decoding fail with an error whose text names such a key; with no such   *)
(* key decoding succeeds.                                                  *)
C13_MismatchNamesKey ==
    op \in {"Modem.parse", "Bearer.parse", "parseLTESignal"} =>
        IF Mistyped(op, arg.ps)
        THEN /\ res.err # NoErr
             /\ \E j \in 1..Len(arg.ps) :
                    /\ Mistyped(op, <<arg.ps[j]>>)
                    /\ res.err.text[2] = Key(arg.ps[j])
        ELSE res.err = NoErr

(* Bearer.parse has failed on an Ip4Config that holds a string, after a    *)
(* well-typed Connected                                                    *)
C13_Witness ==
    /\ op = "Bearer.parse"
    /\ arg.ps = <<Pair("Connected", VBool(TRUE)), Pair("Ip4Config", VString("X"))>>
    /\ res.err # NoErr /\ res.err.text[2] = "Ip4Config"

(* C14: when the Ip4Config or Ip6Config property map of a bearer holds,    *)
(* under address, dns1, dns2, dns3, gateway, method, mtu or prefix, a      *)
(* value of the wrong type or an IP literal that does not parse, decoding  *)
(* the bearer fails with an error.                                         *)
C14_IPConfigErrorsSurface ==
    op = "Bearer.parse" =>
        \A j \in 1..Len(arg.ps) :
            ( /\ Key(arg.ps[j]) \in {"Ip4Config", "Ip6Config"}
              /\ Val(arg.ps[j]).kind = "map[string]dbus.Variant"
              /\ Mistyped("parseIPConfig", Val(arg.ps[j]).l) )
            => res.err # NoErr

(* Bearer.parse has returned no error for an Ip4Config whose address is a  *)
(* uint32, and the bearer carries an IPConfig without an address IP        *)
C14_Witness ==
    /\ op = "Bearer.parse"
    /\ arg.ps = <<Pair("Ip4Config", VProperties(<<Pair("address", VUint32(1))>>))>>
    /\ res.err = NoErr
    /\ res.val.IPv4Config # GoNil

(* C15: Modem.Signal returns a non-nil error when the properties it gets   *)
(* hold a Rate that is not a uint32 or an Lte that is not a property map.  *)
C15_SignalSurfacesMalformed ==
    (op = "Signal" /\ reply.err = NoErr) =>
        \A j \in 1..Len(reply.ps) :
            ( \/ Key(reply.ps[j]) = "Rate" /\ Val(reply.ps[j]).kind # "uint32"
              \/ Key(reply.ps[j]) = "Lte" /\ Val(reply.ps[j]).kind # "map[string]dbus.Variant" )
            => res.err # NoErr

(* Modem.Signal has returned a Signal with the zero LTE data and no error  *)
(* for an Lte property holding a string                                    *)
C15_Witness ==
    /\ op = "Signal"
    /\ reply = Reply(<<Pair("Rate", VUint32(10)), Pair("Lte", VString("foo"))>>, NoErr)
    /\ res.err = NoErr
    /\ res.val.Rate = Seconds(10) /\ res.val.LTE = ZeroSignal.LTE

(* C16: for addresses that parse, given under dns1, dns2 and dns3, the     *)
(* DNS list parseIPConfig returns holds exactly the addresses given, each  *)
(* as often as given, in ascending bytes.Compare order; sorting it again   *)
(* leaves it as it is; and any other map with the same addresses, under    *)
(* other keys or visited in another order, decodes to the same list.       *)
C16_DNSSorted ==
    LET DNSOnly(ps) == \A j \in 1..Len(ps) :
                           /\ Key(ps[j]) \in {"dns1", "dns2", "dns3"}
                           /\ Expected([name |-> "IP", bits |-> 0], Val(ps[j]))
        Given(ps, a) == Cardinality({ j \in 1..Len(ps) : ParseIP(Val(ps[j]).s) = a })
        Held(l, a)   == Cardinality({ j \in 1..Len(l) : l[j] = a })
        Addrs(ps)    == { ParseIP(Val(ps[j]).s) : j \in 1..Len(ps) }
        Same(ps, qs) == Addrs(ps) = Addrs(qs) /\ \A a \in Addrs(ps) : Given(ps, a) = Given(qs, a)
        Others(ps)   == MapsOver({ Pair(k, Val(ps[j])) : k \in {"dns1", "dns2", "dns3"},
                                                            j \in 1..Len(ps) }, Len(ps))
    IN (op = "parseIPConfig" /\ DNSOnly(arg.ps)) =>
          /\ res.err = NoErr
          /\ Len(res.val.DNS) = Len(arg.ps)
          /\ \A a \in Addrs(arg.ps) : Held(res.val.DNS, a) = Given(arg.ps, a)
          /\ \A a, b \in 1..Len(res.val.DNS) :
                 a < b => bytesCompare(res.val.DNS[a].l, res.val.DNS[b].l) # 1
          /\ SliceStable(res.val.DNS) = res.val.DNS
          /\ \A qs \in Others(arg.ps) :
                 Same(arg.ps, qs) =>
                     Decode("parseIPConfig", qs, arg.ip6).val.DNS = res.val.DNS

(* parseIPConfig has returned three addresses given in descending order,   *)
(* in ascending order                                                      *)
C16_Witness ==
    /\ op = "parseIPConfig"
    /\ arg.ps = <<Pair("dns1", VString("192.0.2.10")), Pair("dns3", VString("192.0.2.1")),
                  Pair("dns2", VString("192.0.2.0"))>>
    /\ res.val.DNS = <<ParseIP("192.0.2.0"), ParseIP("192.0.2.1"), ParseIP("192.0.2.10")>>

(* C17: parseIPConfig merges address and prefix whichever arrive: with     *)
(* only address the Address has that IP and a nil mask, with only prefix   *)
(* it has that mask and a nil IP, with both in either order it has both,   *)
(* with neither the Address is nil; none of these gives an error.          *)
C17_AddressPrefixMerge ==
    LET At(ps, k) == { j \in 1..Len(ps) : Key(ps[j]) = k }
        Bits      == IF arg.ip6 THEN 128 ELSE 32
        Well(ps)  == \A j \in 1..Len(ps) :
                        /\ Key(ps[j]) = "address" => Expected([name |-> "IP", bits |-> 0], Val(ps[j]))
                        /\ Key(ps[j]) = "prefix"  => Val(ps[j]).kind = "uint32" /\ Val(ps[j]).n <= Bits
        IPOf(ps)  == IF At(ps, "address") = {} THEN GoNil
                     ELSE ParseIP(Val(ps[CHOOSE j \in At(ps, "address") : TRUE]).s)
        MaskOf(ps) == IF At(ps, "prefix") = {} THEN GoNil
                      ELSE CIDRMask(Val(ps[CHOOSE j \in At(ps, "prefix") : TRUE]).n, Bits)
    IN (op = "parseIPConfig" /\ Well(arg.ps)) =>
          /\ res.err = NoErr
          /\ IF At(arg.ps, "address") = {} /\ At(arg.ps, "prefix") = {}
             THEN res.val.Address = GoNil
             ELSE /\ res.val.Address # GoNil
                  /\ res.val.Address.IP = IPOf(arg.ps)
                  /\ res.val.Address.Mask = MaskOf(arg.ps)
                  /\ (res.val.Address.IP = GoNil) = (At(arg.ps, "address") = {})
                  /\ (res.val.Address.Mask = GoNil) = (At(arg.ps, "prefix") = {})

(* parseIPConfig has merged a prefix visited before its address *)
C17_Witness ==
    /\ op = "parseIPConfig" /\ ~arg.ip6
    /\ arg.ps = <<Pair("prefix", VUint32(24)), Pair("address", VString("192.0.2.10"))>>
    /\ res.err = NoErr
    /\ res.val.Address = [IP |-> ParseIP("192.0.2.10"), Mask |-> VIPMask(<<255, 255, 255, 0>>)]

(* C18: the Index of a Bearer comes from the last segment of its object    *)
(* path alone: when Modem.Bearers succeeds, each Bearer's Index written in *)
(* decimal is the last segment of the path it was fetched from, whatever   *)
(* the properties; when a path fetched has a last segment that is not a    *)
(* number, Modem.Bearers returns an error and no Bearer.                   *)
C18_BearerIndexFromPath ==
    op = "Bearers" =>
        LET ops == PairsOf(mdm.bearers)
        IN /\ res.err = NoErr =>
                 /\ Len(res.val.l) = Len(ops)
                 /\ \A j \in 1..Len(ops) : Itoa(res.val.l[j].Index) = path_Base(ops[j])
           /\ \A j \in 1..Len(sent) :
                 (\E c \in 1..Len(path_Base(ops[j])) : ~IsDigit(path_Base(ops[j])[c]))
                     => (res.err # NoErr /\ res.val = GoNil)

(* Modem.Bearers has failed on the path ending in x after decoding the     *)
(* bearer at the path ending in 0                                          *)
C18_Witness ==
    /\ op = "Bearers"
    /\ mdm.bearers = VObjectPaths(<<BearerPath(<<"0">>), BearerPath(<<"x">>)>>)
    /\ Len(reply) = 2 /\ reply[1].err = NoErr /\ reply[2].err = NoErr
    /\ reply[2].ps # <<>>
    /\ res.err = errorsNew("strconv.Atoi: invalid syntax") /\ res.val = GoNil

C20_PathCompositionNeverAborts ==
    /\ op \in {"Modem", "Modem_assert"} =>
          (IsValid(ModemPath(arg.n).p) /\ (sent = <<>> => ~panicked))
    /\ op \in {"GetNetworkTime", "SignalSetup", "Signal"} =>
          (IsValid(ModemPath(mdm.Index).p) /\ ~panicked)

(* Client.Modem given the index -1 has panicked in objectPath before       *)
(* anything was sent                                                       *)
C20_Witness ==
    /\ op = "Modem" /\ arg = VInt(-1)
    /\ ModemPath(-1).p = ObjectPath(baseObject \o "/Modem", <<"-", "1">>)
    /\ panicked /\ sent = <<>> /\ mdm = GoNil

(* C21: no enumeration value is rejected for its range. When every key of  *)
(* the map is of the type read there, Modem.parse succeeds, PowerState and *)
(* State hold the uint32 or int32 given and each Port's Type the uint32    *)
(* given, and parseIPConfig returns a Method equal to the uint32 or int32  *)
(* given, also for values that are none of the named constants (int being  *)
(* 64 bits wide).                                                          *)
C21_EnumValuesPreserved ==
    /\ (op = "Modem.parse" /\ ~Mistyped(op, arg.ps)) =>
          /\ res.err = NoErr
          /\ \A j \in 1..Len(arg.ps) :
                /\ Key(arg.ps[j]) \in {"PowerState", "State"} =>
                      res.val[Key(arg.ps[j])] = Val(arg.ps[j]).n
                /\ Key(arg.ps[j]) = "Ports" =>
                      /\ Len(res.val.Ports.l) = Len(Val(arg.ps[j]).l)
                      /\ \A q \in 1..Len(Val(arg.ps[j]).l) :
                            res.val.Ports.l[q].n = Val(arg.ps[j]).l[q].l[2].n
    /\ op = "parseIPConfig" =>
          /\ res.err = NoErr
          /\ \A j \in 1..Len(arg.ps) :
                (Key(arg.ps[j]) = "method" /\ Val(arg.ps[j]).kind \in {"uint32", "int32"})
                    => res.val.Method = Val(arg.ps[j]).n

(* Modem.parse has kept a State of -2147483647 and a port type of 2^31-1 *)
C21_Witness ==
    /\ op = "Modem.parse"
    /\ arg.ps = <<Pair("State", VInt32(-2147483647)),
                  Pair("Ports", VPorts(<<VTuple(<<VString("ttyUSB0"), VUint32(2147483647)>>)>>))>>
    /\ res.err = NoErr
    /\ res.val.State = -2147483647
    /\ res.val.Ports = VPortList(<<Port("ttyUSB0", 2147483647)>>)

C23_SetupSendsRoundedRate ==
    op = "SignalSetup" =>
        /\ Len(sent) = 1
        /\ sent[1].method = "org.freedesktop.ModemManager1.Modem.Signal.Setup"
        /\ sent[1].out = "nil"
        /\ \E r \in (arg.sec - 1)..(arg.sec + 1) :
              LET d == (arg.sec - r) * 1000000000 + arg.nsec
              IN /\ d \in -500000000..500000000
                 /\ d = 500000000 => r < 0
                 /\ d = -500000000 => r > 0
                 /\ sent[1].args = <<VUint32(r)>>

(* SignalSetup with a rate of -1 s has sent the uint32 0 *)
C23_Witness ==
    /\ op = "SignalSetup" /\ arg = Duration(-1, 0)
    /\ sent[1].args = <<VUint32(0)>>
    /\ res.err = NoErr

----------------------------------------------------------------------------
(* Properties of decodes running side by side, under SpecPar *)

(* C24: with the steps of several decodes interleaved in any order, each   *)
(* session holds the value it began with and the error, and has returned   *)
(* the value, that its accessor calls give when run alone in their order;  *)
(* each LTE decode has the fields and the error of decoding its keys       *)
(* alone; and a step of one thread changes nothing of another thread.      *)
C24_IndependentSessions ==
    [][LET RECURSIVE Alone(_, _, _)
           Alone(p, calls, n) == IF n = 0 THEN [vp |-> p, ret |-> GoNil]
                                 ELSE Call(calls[n], Alone(p, calls, n - 1).vp)
           AsAlone(th, r) == th.p = r.vp /\ th.out = r.ret
           Good(th) ==
               IF th.kind = "session"
               THEN AsAlone(th, Alone(newValueParser(th.p.v), th.calls,
                                      IF th.busy THEN Len(th.calls) - 1 ELSE Len(th.calls)))
               ELSE [l |-> th.l, err |-> th.err]
                        = parseLTESignal(ZeroSignal.LTE, SubSeq(th.ps, 1, th.j - 1), 1)
           Stepped(t) == \/ threads'[t].calls # threads[t].calls
                         \/ threads'[t].busy # threads[t].busy
                         \/ threads'[t].j # threads[t].j
       IN \A t \in DOMAIN threads :
              /\ Good(threads'[t])
              /\ Stepped(t) \/ threads'[t] = threads[t]]_vars

(* thread 1 is inside its second accessor call, its session without error, *)
(* while thread 2 has recorded an error on its own session                 *)
C24_Witness ==
    /\ threads # <<>>
    /\ threads[1].kind = "session" /\ threads[1].busy /\ Len(threads[1].calls) = 2
    /\ threads[1].p.err = NoErr
    /\ threads[2].kind = "session" /\ ~threads[2].busy /\ threads[2].p.err # NoErr

(* C25: a Modem that Client.Modem has returned is not changed by the       *)
(* methods called on it: across every call of GetNetworkTime, SignalSetup, *)
(* Signal and Bearers, in any sequence and whether it succeeds or fails,   *)
(* every field of the Modem and its list of bearer paths stay as they are. *)
C25_ModemImmutable ==
    [][(mdm # GoNil /\ op' \in {"GetNetworkTime", "SignalSetup", "Signal", "Bearers"})
           => mdm' = mdm]_vars

(* Bearers has failed on a Modem on which a method had been called before, *)
(* and the Modem still holds its two bearer paths                          *)
C25_Witness ==
    /\ op = "Bearers" /\ res.err # NoErr
    /\ mdm # GoNil /\ mdm.Device = "X"
    /\ Len(PairsOf(mdm.bearers)) = 2 /\ Len(sent) = 2

(* C26: when Modem.Bearers succeeds it returns one Bearer per stored path, *)
(* the j-th being the decoding of the j-th reply with the index of the     *)
(* j-th path; a bearer whose property map is empty or nil is decoded       *)
(* without error to a Bearer whose fields other than Index are zero and    *)
(* whose IPv4Config and IPv6Config are nil.                                *)
C26_BearersOnePerPath ==
    op = "Bearers" =>
        LET ops == PairsOf(mdm.bearers)
            Idx(j) == Atoi(path_Base(ops[j])).n
        IN /\ res.err = NoErr =>
                 /\ Len(res.val.l) = Len(ops)
                 /\ \A j \in 1..Len(ops) :
                       /\ res.val.l[j].Index = Idx(j)
                       /\ res.val.l[j] = Bearer_parse([res.val.l[j] EXCEPT !.Connected = FALSE, !.Interface = "",
                                                         !.IPTimeout = Seconds(0), !.IPv4Config = GoNil,
                                                         !.IPv6Config = GoNil, !.Suspended = FALSE],
                                                      reply[j].ps, 1).b
           /\ \A j \in 1..Len(reply) :
                 (reply[j].err = NoErr /\ reply[j].ps = <<>> /\ Atoi(path_Base(ops[j])).err = NoErr) =>
                     /\ j = Len(reply) => res.err = NoErr
                     /\ res.err = NoErr =>
                           /\ ~res.val.l[j].Connected /\ res.val.l[j].Interface = ""
                           /\ res.val.l[j].IPTimeout = Seconds(0) /\ ~res.val.l[j].Suspended
                           /\ res.val.l[j].IPv4Config = GoNil /\ res.val.l[j].IPv6Config = GoNil

(* Modem.Bearers has returned two bearers, the first decoded from a map    *)
(* with properties and the second, at index 12, from an empty map          *)
C26_Witness ==
    /\ op = "Bearers" /\ res.err = NoErr /\ Len(res.val.l) = 2
    /\ reply[1].ps # <<>> /\ res.val.l[1].Connected /\ res.val.l[1].Index = 0
    /\ reply[2].ps = <<>> /\ res.val.l[2].Index = 12
    /\ res.val.l[2].IPv4Config = GoNil

(* C27: a Client.Modem that returns has issued exactly one call, a GetAll  *)
(* on the modem's own path and the Modem interface; Modem.Bearers has      *)
(* issued at most one GetAll per stored path, the j-th on the j-th path    *)
(* and the Bearer interface, one for every path when it succeeds, and no   *)
(* call after the first bearer that failed by a transport error, a path    *)
(* whose last segment is not a number or a decode error.                   *)
C27_LazyInOrder ==
    /\ (op = "Modem" /\ ~panicked) =>
          sent = << [method |-> "org.freedesktop.DBus.Properties.GetAll",
                     path |-> ModemPath(arg.n).p,
                     iface |-> "org.freedesktop.ModemManager1.Modem"] >>
    /\ op = "Bearers" =>
          LET ops == PairsOf(mdm.bearers)
              Fails(j) == \/ reply[j].err # NoErr
                          \/ Atoi(path_Base(ops[j])).err # NoErr
                          \/ Bearer_parse(NewBearer(0), reply[j].ps, 1).err # NoErr
          IN /\ Len(sent) <= Len(ops) /\ Len(reply) = Len(sent)
             /\ \A j \in 1..Len(sent) :
                   /\ sent[j] = [method |-> "org.freedesktop.DBus.Properties.GetAll",
                                 path |-> ops[j],
                                 iface |-> "org.freedesktop.ModemManager1.Bearer"]
                   /\ Fails(j) => (j = Len(sent) /\ res.err # NoErr)
             /\ res.err = NoErr => Len(sent) = Len(ops)
             /\ res.err # NoErr => (sent # <<>> /\ Fails(Len(sent)))

(* Modem.Bearers on a Modem with two paths has stopped after the first     *)
(* bearer failed to decode, with one call issued                           *)
C27_Witness ==
    /\ op = "Bearers" /\ Len(PairsOf(mdm.bearers)) = 2
    /\ Len(sent) = 1 /\ reply[1].err = NoErr /\ reply[1].ps # <<>>
    /\ res.err # NoErr

(* C28: the Modem, Bearer, LTE signal and IPConfig decoders, and the       *)
(* Signal decoder on a reply, give for every other order of the same       *)
(* property map the same verdict, and on success the same entity; when     *)
(* decoding fails the two errors name keys of the map.                     *)
C28_OrderIndependent ==
    LET Orders(ps) == { q \in [1..Len(ps) -> { ps[j] : j \in 1..Len(ps) }] :
                           \A j \in 1..Len(ps) : \E n \in 1..Len(ps) : q[n] = ps[j] }
        Keys(ps) == { Key(ps[j]) : j \in 1..Len(ps) }
        Agree(a, b) == /\ (a.err = NoErr) <=> (b.err = NoErr)
                       /\ a.err = NoErr => a.val = b.val
    IN /\ op \in {"Modem.parse", "Bearer.parse", "parseLTESignal", "parseIPConfig"} =>
             \A q \in Orders(arg.ps) :
                 /\ Agree(res, Decode(op, q, arg.ip6))
                 /\ res.err # NoErr =>
                       /\ res.err.text[2] \in Keys(arg.ps)
                       /\ Decode(op, q, arg.ip6).err.text[2] \in Keys(arg.ps)
       /\ (op = "Signal" /\ reply.err = NoErr) =>
             \A q \in Orders(reply.ps) : Agree(res, parseSignal(ZeroSignal, q, 1))

(* Bearer.parse has failed on a map of two malformed keys, and on the      *)
(* other order of the map it fails with the other key in the error         *)
C28_Witness ==
    /\ op = "Bearer.parse" /\ Len(arg.ps) = 2 /\ res.err # NoErr
    /\ res.err.text[2] = Key(arg.ps[1])
    /\ Decode(op, <<arg.ps[2], arg.ps[1]>>, FALSE).err.text[2] = Key(arg.ps[2])

(* C29: on a manager whose modems occupy the indices 0..n-1, with no modem *)
(* at index n, ForEachModem returns, and at no time has it called fn more  *)
(* than n times or fetched more than n+1 times; and it returns only after  *)
(* a fetch that failed or a call of fn that returned an error, so a loop   *)
(* whose fetches all succeed and whose fn always returns nil never         *)
(* returns.                                                                *)
C29_TerminatesIffFinite ==
    LET None(k) == k \notin DOMAIN modems \/ errorsIs(Client_Modem(k, modems[k]).err, ErrNotExist)
        Finite == \E k \in 0..MaxIndex : None(k)
        n == CHOOSE k \in 0..MaxIndex : None(k) /\ \A h \in 0..(k - 1) : ~None(h)
    IN /\ Finite => <>(pc = "done")
       /\ [](Finite => (Len(invoked) <= n /\ Len(fetched) <= n + 1))
       /\ [](pc = "done" => (lastFetch.err # NoErr \/ fnRet # NoErr))

(* ForEachModem has returned nil on a manager of two modems, after two     *)
(* calls of fn and three fetches                                           *)
C29_Witness ==
    /\ pc = "done" /\ feRet = NoErr
    /\ Exists(modems[0]) /\ Exists(modems[1]) /\ modems[2] = Absent
    /\ Len(invoked) = 2 /\ Len(fetched) = 3

(* C30: Mask records an error exactly for a value that is not a uint32.    *)
(* For a uint32 prefix length p and the bit width b of the family, 32 or   *)
(* 128, p <= b gives the mask of b bits whose first p bits are one and     *)
(* the others zero, and p > b gives a nil mask with no error; a bearer     *)
(* whose Ip4Config or Ip6Config has a prefix longer than its family and an *)
(* address decodes without error to a config whose Address has the IP and  *)
(* a nil Mask.                                                             *)
C30_MaskLongPrefix ==
    LET Bit(m, j) == (m.l[((j - 1) \div 8) + 1].n \div 2^(7 - ((j - 1) % 8))) % 2
        PrefixOf(ps) == { Val(ps[j]) : j \in { h \in 1..Len(ps) : Key(ps[h]) = "prefix" } }
        HasIP(ps) == \E j \in 1..Len(ps) : Key(ps[j]) = "address" /\ ParseIP(Val(ps[j]).s) # GoNil
        Long(v, b) == /\ v.kind = "map[string]dbus.Variant" /\ HasIP(v.l)
                      /\ \E x \in PrefixOf(v.l) : x.kind = "uint32" /\ x.n > b
        NoMask(c) == c # GoNil /\ c.Address # GoNil /\ c.Address.IP # GoNil /\ c.Address.Mask = GoNil
    IN /\ op = "parseIPConfig" =>
             \A v \in PrefixOf(arg.ps) :
                \E b \in {IF arg.ip6 THEN 128 ELSE 32}, o \in {valueParser_Mask(newValueParser(v), IF arg.ip6 THEN 128 ELSE 32)} :
                   /\ (Err(o.vp) # NoErr) <=> (v.kind # "uint32")
                   /\ res.err = NoErr /\ res.val.Address # GoNil /\ res.val.Address.Mask = o.ret
                   /\ v.kind # "uint32" => o.ret = GoNil
                   /\ (v.kind = "uint32" /\ v.n > b) => o.ret = GoNil
                   /\ (v.kind = "uint32" /\ v.n <= b) =>
                         /\ o.ret # GoNil /\ Len(o.ret.l) * 8 = b
                         /\ \A j \in 1..b : Bit(o.ret, j) = (IF j <= v.n THEN 1 ELSE 0)
       /\ (op = "Bearer.parse" /\ ~Mistyped(op, arg.ps)) =>
             /\ res.err = NoErr
             /\ \A j \in 1..Len(arg.ps) :
                   /\ (Key(arg.ps[j]) = "Ip4Config" /\ Long(Val(arg.ps[j]), 32)) => NoMask(res.val.IPv4Config)
                   /\ (Key(arg.ps[j]) = "Ip6Config" /\ Long(Val(arg.ps[j]), 128)) => NoMask(res.val.IPv6Config)

(* Bearer.parse has decoded an Ip4Config of address 192.0.2.10 and prefix  *)
(* 33 without error, the Address holding the IP and no mask                *)
C30_Witness ==
    /\ op = "Bearer.parse" /\ res.err = NoErr
    /\ \E j \in 1..Len(arg.ps) :
          /\ Key(arg.ps[j]) = "Ip4Config"
          /\ Val(arg.ps[j]).l = <<Pair("address", VString("192.0.2.10")), Pair("prefix", VUint32(33))>>
    /\ res.val.IPv4Config.Address = [IP |-> ParseIP("192.0.2.10"), Mask |-> GoNil]

====
